---- MODULE Spec2Model ----
(***************************************************************************)
(* Connection / room / broadcast core of the game server                   *)
(* (server/internal/game/simple_server.go; server.go has the same logic).  *)
(*                                                                         *)
(* One worker per accepted connection runs handleConnection.  A worker     *)
(* step is one atomic action of the model.  Steps are cut at every lock    *)
(* acquisition and at every access to memory that another worker can       *)
(* touch without holding the same lock (the fields of a Player record,     *)
(* which two workers share when the same DID authenticates on two          *)
(* connections).  Sections run under s.roomMutex never block inside, so    *)
(* each of them is one step.                                               *)
(***************************************************************************)
EXTENDS Integers, Sequences, FiniteSets, TLC

\* ---- bounds of the model
\* GameRoom instances created in a run
MaxInst == 3
\* envelopes the clients send in a run: Spec and SpecFull / SpecStale /
\* SpecBcast / SpecSolo
MaxMsgs == 4
MaxMsgsStale == 8
MaxMsgsBcast == 6
MaxMsgsSolo == 6
MaxMsgsTask == 7
MaxMsgsMove == 6
MaxMsgsProto == 5
MaxMsgsShare == 5
MaxMsgsInbound == 6
MaxMsgsSpawn == 6
MaxMsgsOrder == 6
MaxMsgsChat == 5
MaxMsgsAuth == 5

\* ---- program constants
MaxPlayers == 10
Nil == 0

\* connections the server accepts; SpecBcast uses all three, SpecSolo the
\* first, the other specifications the first two
Conns == {1, 2, 3}
Pair == {1, 2}
\* DIDs that clients of the model authenticate with
DIDs == {1, 2, 3}
\* DIDs of players that joined a room earlier and whose connections are gone
Seated == 101..(100 + MaxPlayers - 1)
AllDIDs == DIDs \cup Seated
Insts == 1..MaxInst
RoomIds == {"default", "r1"}

\* s.didService.ResolveDID fails for a DID that was never registered
AuthFailures == {"invalid_data", "missing_did", "did_not_found"}

\* default map of createDefaultGameState
SpawnPoints == << [x |-> 100, y |-> 100], [x |-> 200, y |-> 200], [x |-> 300, y |-> 300] >>
Origin == [x |-> 0, y |-> 0]
\* a default Game State whose task is created active
ActiveTaskStatus == "active"
\* createDefaultGameState: Status of the task "welcome_task" of a new room
DefaultTaskStatus == "available"
\* the `action` and `taskId` fields a client sends in player_action
Actions == {"complete_task", "interact"}
TaskIds == {"welcome_task", "no_such_task"}
\* the same with "accept_task", which the client's acceptTask sends
InboundActions == Actions \cup {"accept_task"}
\* what IssueAchievementCredential returns: a credential, or an error
IssueResults == {"ok", "err"}
\* the handlers that decode data, named by the envelope they are sent
BadDataTypes == {"player_move", "chat", "player_action", "complete_task"}
\* the envelope types that handleConnection passes on only with a session
SessionTypes == {"join_room", "leave_room", "player_move", "player_action", "chat"}
\* the connections whose peer has stopped reading: a WriteJSON of a
\* broadcast on one of them does not return (no write deadline is set)
SlowPeers == {3}
\* texts a client sends in chat
ChatTexts == {"hi", "gg"}
\* positions a client sends in player_move
MovePoints == { [x |-> 5, y |-> 7] }

VARIABLES
    open,      \* open[c]: the transport of connection c is up
    pc,        \* pc[c]: where the worker of connection c stands
    player,    \* player[c]: handleConnection's local `player` (a DID, or Nil)
    lroom,     \* lroom[c]: the handler's local `room`
    lvroom,    \* lvroom[c]: leaveRoom's local `room`
    ret,       \* ret[c]: where the worker goes on after leaveRoom / broadcastToRoom
    todo,      \* todo[c]: members the running broadcast has still to visit
    bmem,      \* bmem[c]: the member whose Connection the running send found set
    bmsg,      \* bmsg[c]: the envelope and exclusion id of the running broadcast
    cur,       \* cur[c]: the inbound envelope being handled
    out,       \* out[c]: envelopes written while handling cur[c], in order
    players,   \* s.players: for each DID, the number of Player records with it
    pRoom,     \* Player.Room
    pConn,     \* Player.Connection
    pStatus,   \* Player.Status
    pPos,      \* Player.Position
    rooms,     \* s.rooms: room id -> instance (Nil: absent)
    nextInst,  \* number of GameRoom instances created so far, plus one
    rid,       \* GameRoom.ID of an instance
    members,   \* GameRoom.Players
    tStatus,   \* GameRoom.GameState.Tasks: Status of the task "welcome_task"
    issued,    \* credentials the vc service has issued for the task of a room
    wlock,     \* GameRoom.mutex, write form: the worker that holds it
    rlock,     \* GameRoom.mutex, read form: the workers that hold it
    rmutex,    \* s.roomMutex: the worker that holds it
    msgs       \* number of envelopes the clients may still send

vars == << open, pc, player, lroom, lvroom, ret, todo, bmem, bmsg, cur, out,
           players, pRoom, pConn, pStatus, pPos,
           rooms, nextInst, rid, members, tStatus, issued, wlock, rlock, rmutex, msgs >>

workerVars == << player, lroom, lvroom, ret, todo, bmem, bmsg, cur >>
playerVars == << players, pRoom, pConn, pStatus, pPos >>
roomVars == << rooms, nextInst, rid, members, tStatus, issued, wlock, rlock, rmutex >>

NoMsg == [type |-> "none"]
NoBcast == [type |-> "none", pid |-> Nil, action |-> "none", pos |-> Origin, excl |-> Nil]

\* The state of a server that runs since `seated` players authenticated,
\* joined room "default" and disconnected (handleDisconnect leaves them members).
InitWith(seated, budget) ==
    /\ open = [c \in Conns |-> TRUE]
    /\ pc = [c \in Conns |-> "read"]
    /\ player = [c \in Conns |-> Nil]
    /\ lroom = [c \in Conns |-> Nil]
    /\ lvroom = [c \in Conns |-> Nil]
    /\ ret = [c \in Conns |-> "done"]
    /\ todo = [c \in Conns |-> {}]
    /\ bmem = [c \in Conns |-> Nil]
    /\ bmsg = [c \in Conns |-> NoBcast]
    /\ cur = [c \in Conns |-> NoMsg]
    /\ out = [c \in Conns |-> << >>]
    /\ players = [d \in AllDIDs |-> IF d \in seated THEN 1 ELSE 0]
    /\ pRoom = [d \in AllDIDs |-> IF d \in seated THEN 1 ELSE Nil]
    /\ pConn = [d \in AllDIDs |-> Nil]
    /\ pStatus = [d \in AllDIDs |-> IF d \in seated THEN "offline" ELSE "none"]
    /\ pPos = [d \in AllDIDs |-> Origin]
    /\ rooms = [r \in RoomIds |-> IF seated # {} /\ r = "default" THEN 1 ELSE Nil]
    /\ nextInst = IF seated = {} THEN 1 ELSE 2
    /\ rid = [i \in Insts |-> IF seated # {} /\ i = 1 THEN "default" ELSE "none"]
    /\ members = [i \in Insts |-> IF i = 1 THEN seated ELSE {}]
    /\ tStatus = [i \in Insts |-> IF seated # {} /\ i = 1 THEN DefaultTaskStatus ELSE "none"]
    /\ issued = [i \in Insts |-> 0]
    /\ wlock = [i \in Insts |-> Nil]
    /\ rlock = [i \in Insts |-> {}]
    /\ rmutex = Nil
    /\ msgs = budget

\* NewSimpleServer: no room, no player; every connection is accepted and open
Init == InitWith({}, MaxMsgs)

\* ---- helpers ------------------------------------------------------------

\* an envelope written on connection `to` for session `sess`
Env(to, sess, type, pid, action, pos) ==
    [to |-> to, sess |-> sess, type |-> type, pid |-> pid, action |-> action, pos |-> pos]

\* conn.WriteJSON by worker c on connection `to`: the envelope reaches the peer
\* when the transport is up, otherwise the write returns an error (ignored)
WriteJSON(c, log, to, env) ==
    IF to # Nil /\ open[to] THEN Append(log, env) ELSE log

\* sendError / sendErrorToPlayer
ErrorEnv(to, sess, text) == Env(to, sess, "error", Nil, text, Origin)

\* s.roomMutex taken without waiting for its holder
MutexIgnored == TRUE

\* s.roomMutex is free for Lock()
MutexFree == rmutex = Nil

\* room.mutex is free for Lock()
LockFree(i) == wlock[i] = Nil /\ rlock[i] = {}

\* the capacity test off by one: a room is full only above its capacity
RoomIsFullAbove(n) == n > MaxPlayers

\* len(room.Players) >= room.MaxPlayers
RoomIsFull(n) == n >= MaxPlayers

\* the index taken from the membership count before the insertion
SpawnBefore(n) == SpawnPoints[((n - 1) % Len(SpawnPoints)) + 1]

\* spawnIndex := len(room.Players) % len(SpawnPoints)
SpawnFor(n) == SpawnPoints[(n % Len(SpawnPoints)) + 1]

\* a run-time panic in the worker of c (nil dereference): the unwinding runs
\* the deferred unlocks of joinRoom and broadcastToRoom; handleDisconnect is
\* not run.  The connection stays open until the unwinding reaches
\* HandleWebSocket's deferred conn.Close(), a later step (Return)
Panic(c) ==
    /\ pc' = [pc EXCEPT ![c] = "panic"]
    /\ UNCHANGED open
    /\ wlock' = [i \in Insts |-> IF wlock[i] = c THEN Nil ELSE wlock[i]]
    /\ rlock' = [i \in Insts |-> rlock[i] \ {c}]
    /\ UNCHANGED rmutex

Goto(c, loc) == pc' = [pc EXCEPT ![c] = loc]

\* the next envelope taken while the broadcast of the last one is under way
ReadJSONEarly(c) == pc[c] \in {"read", "bc_loop"} /\ open[c] /\ msgs > 0 /\ msgs' = msgs - 1

\* the worker blocks in conn.ReadJSON and gets the next envelope
ReadJSON(c) == pc[c] = "read" /\ open[c] /\ msgs > 0 /\ msgs' = msgs - 1

\* ---- the transport ------------------------------------------------------

\* handleConnection: the peer closes the connection or the transport fails;
\* conn.ReadJSON returns an error and the loop breaks;
\* `if player != nil { s.handleDisconnect(player) }`
ReadError(c) ==
    /\ pc[c] = "read"
    /\ open[c]
    /\ open' = [open EXCEPT ![c] = FALSE]
    /\ Goto(c, IF player[c] = Nil THEN "closed" ELSE "disc")
    /\ cur' = [cur EXCEPT ![c] = IF player[c] = Nil THEN NoMsg
                                 ELSE [type |-> "disconnect", frame |-> "none"]]
    /\ UNCHANGED << player, lroom, lvroom, ret, todo, bmem, bmsg, out, playerVars, roomVars, msgs >>

\* handleConnection: the client sends a frame that does not decode as an
\* envelope; conn.ReadJSON returns the decoding error and the loop breaks as
\* for any other error.  The transport is up until handleConnection returns
\* and the deferred conn.Close() of HandleWebSocket runs.
ReadMalformed(c) ==
    /\ ReadJSON(c)
    /\ Goto(c, IF player[c] = Nil THEN "done" ELSE "disc")
    /\ cur' = [cur EXCEPT ![c] = [type |-> "disconnect", frame |-> "malformed"]]
    /\ out' = [out EXCEPT ![c] = << >>]
    /\ UNCHANGED << open, player, lroom, lvroom, ret, todo, bmem, bmsg, playerVars, roomVars >>

\* handleConnection: an envelope of a type the switch does not know is logged
UnknownType(c) ==
    /\ ReadJSON(c)
    /\ cur' = [cur EXCEPT ![c] = [type |-> "unknown"]]
    /\ out' = [out EXCEPT ![c] = << >>]
    /\ Goto(c, "done")
    /\ UNCHANGED << open, player, lroom, lvroom, ret, todo, bmem, bmsg, playerVars, roomVars >>

\* an envelope before auth that is answered with an error
NoSessionReported(c, t) ==
    /\ ReadJSON(c)
    /\ player[c] = Nil
    /\ cur' = [cur EXCEPT ![c] = [type |-> "no_session", of |-> t]]
    /\ out' = [out EXCEPT ![c] = WriteJSON(c, << >>, c, ErrorEnv(c, Nil, "not_authenticated"))]
    /\ Goto(c, "done")
    /\ UNCHANGED << open, player, lroom, lvroom, ret, todo, bmem, bmsg, playerVars, roomVars >>

\* handleConnection: `if player != nil { ... }`: an envelope of type t on a
\* connection without a session is passed to no handler
NoSession(c, t) ==
    /\ ReadJSON(c)
    /\ player[c] = Nil
    /\ cur' = [cur EXCEPT ![c] = [type |-> "no_session", of |-> t]]
    /\ out' = [out EXCEPT ![c] = << >>]
    /\ Goto(c, "done")
    /\ UNCHANGED << open, player, lroom, lvroom, ret, todo, bmem, bmsg, playerVars, roomVars >>

\* handlePlayerMove, handleChat, handlePlayerAction, handleCompleteTask with
\* data that is no object or lacks x / y, message, action, taskId: each
\* returns at its type assertion (or before it, without a room)
BadData(c, t) ==
    /\ ReadJSON(c)
    /\ player[c] # Nil
    /\ cur' = [cur EXCEPT ![c] = [type |-> "bad_data", of |-> t]]
    /\ out' = [out EXCEPT ![c] = << >>]
    /\ Goto(c, "done")
    /\ UNCHANGED << open, player, lroom, lvroom, ret, todo, bmem, bmsg, playerVars, roomVars >>

\* ---- auth ---------------------------------------------------------------

\* getOrCreatePlayer: the scan of s.players finds a record with this DID
PlayerExists(tab, d) == tab[d] > 0

\* handleAuth with a DID that resolves, up to getOrCreatePlayer's scan under
\* s.roomMutex: a record that exists is returned (deferred Unlock), else the
\* worker goes on to create one
HandleAuth(c, d) ==
    /\ ReadJSON(c)
    /\ MutexFree
    /\ cur' = [cur EXCEPT ![c] = [type |-> "auth", did |-> d]]
    /\ out' = [out EXCEPT ![c] = << >>]
    /\ IF PlayerExists(players, d)
       THEN /\ Goto(c, "auth_conn")
            /\ UNCHANGED rmutex
       ELSE /\ rmutex' = c
            /\ Goto(c, "gocp_create")
    /\ UNCHANGED << open, player, lroom, lvroom, ret, todo, bmem, bmsg, playerVars,
                    rooms, nextInst, rid, members, tStatus, issued, wlock, rlock >>

\* getOrCreatePlayer: the new Player (Status "online", no Connection, no room,
\* Position {0,0}), `s.players[player.ID] = player`, deferred Unlock
GocpCreate(c) ==
    LET d == cur[c].did
    IN  /\ pc[c] = "gocp_create"
        /\ players' = [players EXCEPT ![d] = @ + 1]
        /\ pRoom' = [pRoom EXCEPT ![d] = Nil]
        /\ pPos' = [pPos EXCEPT ![d] = Origin]
        /\ pStatus' = [pStatus EXCEPT ![d] = "online"]
        /\ pConn' = [pConn EXCEPT ![d] = Nil]
        /\ rmutex' = IF rmutex = c THEN Nil ELSE rmutex
        /\ Goto(c, "auth_conn")
        /\ UNCHANGED << open, workerVars, out,
                        rooms, nextInst, rid, members, tStatus, issued, wlock, rlock, msgs >>

\* handleAuth: `player.Connection = conn`, with no lock held
AuthConn(c) ==
    /\ pc[c] = "auth_conn"
    /\ pConn' = [pConn EXCEPT ![cur[c].did] = c]
    /\ Goto(c, "auth_status")
    /\ UNCHANGED << open, workerVars, out, players, pRoom, pStatus, pPos, roomVars, msgs >>

\* handleAuth: `player.Status = "online"`, with no lock held
AuthStatus(c) ==
    /\ pc[c] = "auth_status"
    /\ pStatus' = [pStatus EXCEPT ![cur[c].did] = "online"]
    /\ Goto(c, "auth_reply")
    /\ UNCHANGED << open, workerVars, out, players, pRoom, pConn, pPos, roomVars, msgs >>

\* handleAuth: conn.WriteJSON(authResponse), `return player`, and
\* `player = s.handleAuth(...)` in handleConnection
AuthReply(c) ==
    LET d == cur[c].did
    IN  /\ pc[c] = "auth_reply"
        /\ out' = [out EXCEPT ![c] = WriteJSON(c, out[c], c, Env(c, d, "auth", d, "success", Origin))]
        /\ player' = [player EXCEPT ![c] = d]
        /\ Goto(c, "done")
        /\ UNCHANGED << open, lroom, lvroom, ret, todo, bmem, bmsg, cur, playerVars, roomVars, msgs >>

\* a failed auth that tells the client nothing
HandleAuthFailSilent(c, why) ==
    /\ ReadJSON(c)
    /\ player' = [player EXCEPT ![c] = Nil]
    /\ cur' = [cur EXCEPT ![c] = [type |-> "auth_bad", why |-> why]]
    /\ out' = [out EXCEPT ![c] = << >>]
    /\ Goto(c, "done")
    /\ UNCHANGED << open, lroom, lvroom, ret, todo, bmem, bmsg, playerVars, roomVars >>

\* handleAuth, failure: data is no object, no string "did", or ResolveDID fails;
\* sendError(conn, ...) and `player = nil` in handleConnection
HandleAuthFail(c, why) ==
    /\ ReadJSON(c)
    /\ player' = [player EXCEPT ![c] = Nil]
    /\ cur' = [cur EXCEPT ![c] = [type |-> "auth_bad", why |-> why]]
    /\ out' = [out EXCEPT ![c] = WriteJSON(c, << >>, c, ErrorEnv(c, Nil, why))]
    /\ Goto(c, "done")
    /\ UNCHANGED << open, lroom, lvroom, ret, todo, bmem, bmsg, playerVars, roomVars >>

\* ---- join_room ----------------------------------------------------------

\* `room, exists := s.rooms[roomID]`
RoomExists(reg, r) == reg[r] # Nil

\* handleJoinRoom up to getOrCreateRoom's lookup under s.roomMutex: a room that
\* exists is returned at once, else the worker goes on to create it
HandleJoinRoom(c, r) ==
    /\ ReadJSON(c)
    /\ player[c] # Nil
    /\ MutexFree
    /\ IF RoomExists(rooms, r)
       THEN /\ lroom' = [lroom EXCEPT ![c] = rooms[r]]
            /\ Goto(c, "join_lock")
            /\ UNCHANGED rmutex
       ELSE /\ nextInst <= MaxInst
            /\ rmutex' = c
            /\ Goto(c, "goc_create")
            /\ UNCHANGED lroom
    /\ cur' = [cur EXCEPT ![c] = [type |-> "join_room", room |-> r]]
    /\ out' = [out EXCEPT ![c] = << >>]
    /\ UNCHANGED << open, player, lvroom, ret, todo, bmem, bmsg, playerVars,
                    rooms, nextInst, rid, members, tStatus, issued, wlock, rlock >>

\* getOrCreateRoom: the new GameRoom with its default GameState,
\* `s.rooms[roomID] = room`, deferred Unlock
GocCreate(c) ==
    LET r == cur[c].room
    IN  /\ pc[c] = "goc_create"
        /\ nextInst <= MaxInst
        /\ lroom' = [lroom EXCEPT ![c] = nextInst]
        /\ rooms' = [rooms EXCEPT ![r] = nextInst]
        /\ rid' = [rid EXCEPT ![nextInst] = r]
        /\ tStatus' = [tStatus EXCEPT ![nextInst] = DefaultTaskStatus]
        /\ UNCHANGED issued
        /\ nextInst' = nextInst + 1
        /\ rmutex' = IF rmutex = c THEN Nil ELSE rmutex
        /\ Goto(c, "join_lock")
        /\ UNCHANGED << open, player, lvroom, ret, todo, bmem, bmsg, cur, out, playerVars,
                        members, wlock, rlock, msgs >>

\* the call s.sendErrorToPlayer(player, text)
SendErrorToPlayer(c, text) ==
    /\ Goto(c, "err_test")
    /\ bmsg' = [bmsg EXCEPT ![c] = [type |-> "error", pid |-> Nil, action |-> text,
                                     pos |-> Origin, excl |-> Nil]]

\* sendErrorToPlayer: the test `if player.Connection != nil`
ErrTest(c) ==
    /\ pc[c] = "err_test"
    /\ Goto(c, IF pConn[player[c]] = Nil THEN "done" ELSE "err_write")
    /\ UNCHANGED << open, workerVars, out, playerVars, roomVars, msgs >>

\* sendErrorToPlayer: player.Connection is read again for the call of
\* WriteJSON; it panics when handleDisconnect of another worker has set the
\* field to nil since the test
ErrWrite(c) ==
    LET p == player[c]
    IN  /\ pc[c] = "err_write"
        /\ IF pConn[p] = Nil
           THEN /\ Panic(c)
                /\ UNCHANGED out
           ELSE /\ out' = [out EXCEPT ![c] = WriteJSON(c, out[c], pConn[p],
                                   ErrorEnv(pConn[p], p, bmsg[c].action))]
                /\ Goto(c, "done")
                /\ UNCHANGED << open, wlock, rlock, rmutex >>
        /\ UNCHANGED << workerVars, playerVars, rooms, nextInst, rid, members, tStatus, issued, rmutex >>
        /\ UNCHANGED msgs

\* handleJoinRoom: data is no object; sendErrorToPlayer
HandleJoinRoomBad(c) ==
    /\ ReadJSON(c)
    /\ player[c] # Nil
    /\ cur' = [cur EXCEPT ![c] = [type |-> "join_room_bad"]]
    /\ out' = [out EXCEPT ![c] = << >>]
    /\ SendErrorToPlayer(c, "invalid_join_data")
    /\ UNCHANGED << open, player, lroom, lvroom, ret, todo, bmem, playerVars, roomVars >>

\* joinRoom: room.mutex.Lock(), then the capacity test; a full room unlocks
\* and returns the error, and handleJoinRoom calls sendErrorToPlayer
JoinLock(c) ==
    /\ pc[c] = "join_lock"
    /\ LockFree(lroom[c])
    /\ IF RoomIsFull(Cardinality(members[lroom[c]]))
       THEN /\ SendErrorToPlayer(c, "room_is_full")
            /\ UNCHANGED wlock
       ELSE /\ Goto(c, "join_check")
            /\ wlock' = [wlock EXCEPT ![lroom[c]] = c]
            /\ UNCHANGED bmsg
    /\ UNCHANGED << open, player, lroom, lvroom, ret, todo, bmem, cur, out, playerVars,
                    rooms, nextInst, rid, members, tStatus, issued, rlock, rmutex >>
    /\ UNCHANGED msgs

\* joinRoom: `if player.Room != nil { s.leaveRoom(player) }`
JoinCheck(c) ==
    /\ pc[c] = "join_check"
    /\ IF pRoom[player[c]] # Nil
       THEN /\ Goto(c, "leave_check")
            /\ ret' = [ret EXCEPT ![c] = "join_insert"]
       ELSE /\ Goto(c, "join_insert")
            /\ UNCHANGED ret
    /\ UNCHANGED << open, player, lroom, lvroom, todo, bmem, bmsg, cur, out, playerVars, roomVars >>
    /\ UNCHANGED msgs

\* joinRoom: `room.Players[player.ID] = player`
JoinInsert(c) ==
    LET i == lroom[c]
    IN  /\ pc[c] = "join_insert"
        /\ members' = [members EXCEPT ![i] = @ \cup {player[c]}]
        /\ Goto(c, "join_setroom")
        /\ UNCHANGED << open, workerVars, out, playerVars,
                        rooms, nextInst, rid, tStatus, issued, wlock, rlock, rmutex >>
        /\ UNCHANGED msgs

\* joinRoom: `player.Room = room`
JoinSetRoom(c) ==
    /\ pc[c] = "join_setroom"
    /\ pRoom' = [pRoom EXCEPT ![player[c]] = lroom[c]]
    /\ Goto(c, "join_spawn")
    /\ UNCHANGED << open, workerVars, out, players, pConn, pStatus, pPos, roomVars, msgs >>

\* joinRoom: `player.Position = SpawnPoints[len(room.Players) % len(SpawnPoints)]`.
\* The assignment of the two-word struct is no atomic write for the workers
\* that access the record without room.mutex: its first word
JoinSpawn(c) ==
    LET i == lroom[c]
    IN  /\ pc[c] = "join_spawn"
        /\ pPos' = [pPos EXCEPT ![player[c]] =
                        [@ EXCEPT !.x = SpawnFor(Cardinality(members[i])).x]]
        /\ Goto(c, "join_spawn_y")
        /\ UNCHANGED << open, workerVars, out, players, pRoom, pConn, pStatus, roomVars, msgs >>

\* the second word of the assignment of player.Position, then the deferred
\* Unlock
JoinSpawnY(c) ==
    LET i == lroom[c]
    IN  /\ pc[c] = "join_spawn_y"
        /\ pPos' = [pPos EXCEPT ![player[c]] =
                        [@ EXCEPT !.y = SpawnFor(Cardinality(members[i])).y]]
        /\ wlock' = [wlock EXCEPT ![i] = Nil]
        /\ Goto(c, "join_reply")
        /\ UNCHANGED << open, workerVars, out, players, pRoom, pConn, pStatus,
                        rooms, nextInst, rid, members, tStatus, issued, rlock, rmutex >>
        /\ UNCHANGED msgs

\* handleJoinRoom: player.Connection.WriteJSON(joinResponse), then the
\* player_update "joined" broadcast that excludes the joiner
JoinReply(c) ==
    LET p == player[c]
    IN  /\ pc[c] = "join_reply"
        /\ IF pConn[p] = Nil
           THEN /\ Panic(c)
                /\ UNCHANGED << out, bmsg, ret >>
           ELSE /\ out' = [out EXCEPT ![c] = WriteJSON(c, out[c], pConn[p],
                                   Env(pConn[p], p, "join_room", p, "success", Origin))]
                /\ bmsg' = [bmsg EXCEPT ![c] = [type |-> "player_update", pid |-> p,
                                                 action |-> "joined", pos |-> Origin, excl |-> p]]
                /\ ret' = [ret EXCEPT ![c] = "done"]
                /\ Goto(c, "bc_lock")
                /\ UNCHANGED << open, wlock, rlock, rmutex >>
        /\ UNCHANGED << player, lroom, lvroom, todo, bmem, cur, playerVars, rooms, nextInst, rid, members, tStatus, issued, rmutex >>
        /\ UNCHANGED msgs

\* ---- leaveRoom ----------------------------------------------------------

\* leaveRoom: `if player.Room == nil { return }`
LeaveCheck(c) ==
    /\ pc[c] = "leave_check"
    /\ Goto(c, IF pRoom[player[c]] = Nil THEN ret[c] ELSE "leave_read")
    /\ UNCHANGED << open, workerVars, out, playerVars, roomVars >>
    /\ UNCHANGED msgs

\* leaveRoom: `room := player.Room`; room.mutex.Lock() on a nil room panics
LeaveRead(c) ==
    /\ pc[c] = "leave_read"
    /\ IF pRoom[player[c]] = Nil
       THEN /\ Panic(c)
            /\ UNCHANGED lvroom
       ELSE /\ lvroom' = [lvroom EXCEPT ![c] = pRoom[player[c]]]
            /\ Goto(c, "leave_lock")
            /\ UNCHANGED << open, wlock, rlock, rmutex >>
    /\ UNCHANGED << player, lroom, ret, todo, bmem, bmsg, cur, out, playerVars, rooms, nextInst, rid, members, tStatus, issued, rmutex >>
    /\ UNCHANGED msgs

\* leaveRoom: room.mutex.Lock() and delete(room.Players, player.ID)
LeaveLock(c) ==
    LET i == lvroom[c]
    IN  /\ pc[c] = "leave_lock"
        /\ LockFree(i)
        /\ wlock' = [wlock EXCEPT ![i] = c]
        /\ members' = [members EXCEPT ![i] = @ \ {player[c]}]
        /\ Goto(c, "leave_setnil")
        /\ UNCHANGED << open, workerVars, out, playerVars, rooms, nextInst, rid, tStatus, issued, rlock, rmutex >>
        /\ UNCHANGED msgs

\* leaveRoom: player.Room = nil; a room with members left is unlocked and the
\* call returns, an empty room goes on to the registry
LeaveSetNil(c) ==
    LET i == lvroom[c]
    IN  /\ pc[c] = "leave_setnil"
        /\ pRoom' = [pRoom EXCEPT ![player[c]] = Nil]
        /\ IF members[i] = {}
           THEN /\ Goto(c, "leave_reg")
                /\ UNCHANGED wlock
           ELSE /\ Goto(c, ret[c])
                /\ wlock' = [wlock EXCEPT ![i] = Nil]
        /\ UNCHANGED << open, workerVars, out, players, pConn, pStatus, pPos,
                        rooms, nextInst, rid, members, tStatus, issued, rlock, rmutex >>
        /\ UNCHANGED msgs

\* delete(s.rooms, room.ID): the entry of the identifier, whatever it holds
RegistryDelete(reg, i) == [reg EXCEPT ![rid[i]] = Nil]

\* leaveRoom: the registry removal under s.roomMutex, then the deferred Unlock
LeaveReg(c) ==
    LET i == lvroom[c]
    IN  /\ pc[c] = "leave_reg"
        /\ MutexFree
        /\ rooms' = RegistryDelete(rooms, i)
        /\ wlock' = [wlock EXCEPT ![i] = Nil]
        /\ Goto(c, ret[c])
        /\ UNCHANGED << open, workerVars, out, playerVars, nextInst, rid, members, tStatus, issued, rlock, rmutex >>
        /\ UNCHANGED msgs

\* ---- leave_room ---------------------------------------------------------

\* handleLeaveRoom: `if player.Room == nil { return }`
HandleLeaveRoom(c) ==
    /\ ReadJSON(c)
    /\ player[c] # Nil
    /\ Goto(c, IF pRoom[player[c]] = Nil THEN "done" ELSE "hleave_read")
    /\ cur' = [cur EXCEPT ![c] = [type |-> "leave_room"]]
    /\ out' = [out EXCEPT ![c] = << >>]
    /\ UNCHANGED << open, player, lroom, lvroom, ret, todo, bmem, bmsg, playerVars, roomVars >>

\* handleLeaveRoom: `room := player.Room`, then s.leaveRoom(player)
HLeaveRead(c) ==
    /\ pc[c] = "hleave_read"
    /\ lroom' = [lroom EXCEPT ![c] = pRoom[player[c]]]
    /\ ret' = [ret EXCEPT ![c] = "leave_reply"]
    /\ Goto(c, "leave_check")
    /\ UNCHANGED << open, player, lvroom, todo, bmem, bmsg, cur, out, playerVars, roomVars >>
    /\ UNCHANGED msgs

\* handleLeaveRoom: player.Connection.WriteJSON(leaveResponse), then the
\* player_update "left" broadcast to `room` (room.ID of a nil room panics)
LeaveReply(c) ==
    LET p == player[c]
    IN  /\ pc[c] = "leave_reply"
        /\ IF pConn[p] = Nil
           THEN /\ Panic(c)
                /\ UNCHANGED << out, bmsg, ret >>
           ELSE /\ out' = [out EXCEPT ![c] = WriteJSON(c, out[c], pConn[p],
                                   Env(pConn[p], p, "leave_room", p, "success", Origin))]
                /\ IF lroom[c] = Nil
                   THEN /\ Panic(c)
                        /\ UNCHANGED << bmsg, ret >>
                   ELSE /\ bmsg' = [bmsg EXCEPT ![c] = [type |-> "player_update", pid |-> p,
                                                   action |-> "left", pos |-> Origin, excl |-> p]]
                        /\ ret' = [ret EXCEPT ![c] = "done"]
                        /\ Goto(c, "bc_lock")
                        /\ UNCHANGED << open, wlock, rlock, rmutex >>
        /\ UNCHANGED << player, lroom, lvroom, todo, bmem, cur, playerVars, rooms, nextInst, rid, members, tStatus, issued, rmutex >>
        /\ UNCHANGED msgs

\* ---- player_move --------------------------------------------------------

\* handlePlayerMove: nothing without a room; else the position is stored
HandlePlayerMove(c, pt) ==
    /\ ReadJSON(c)
    /\ player[c] # Nil
    /\ cur' = [cur EXCEPT ![c] = [type |-> "player_move", pos |-> pt]]
    /\ out' = [out EXCEPT ![c] = << >>]
    /\ Goto(c, IF pRoom[player[c]] = Nil THEN "done" ELSE "mv_x")
    /\ UNCHANGED << open, player, lroom, lvroom, ret, todo, bmem, bmsg, playerVars, roomVars >>

\* handlePlayerMove: `player.Position.X = x`
MoveX(c) ==
    /\ pc[c] = "mv_x"
    /\ pPos' = [pPos EXCEPT ![player[c]] = [@ EXCEPT !.x = cur[c].pos.x]]
    /\ Goto(c, "mv_y")
    /\ UNCHANGED << open, workerVars, out, players, pRoom, pConn, pStatus, roomVars, msgs >>

\* handlePlayerMove: `player.Position.Y = y`, then the call of broadcastToRoom
\* that excludes the mover, whose arguments are evaluated next
MoveY(c) ==
    /\ pc[c] = "mv_y"
    /\ pPos' = [pPos EXCEPT ![player[c]] = [@ EXCEPT !.y = cur[c].pos.y]]
    /\ bmsg' = [bmsg EXCEPT ![c] = [type |-> "player_move", pid |-> player[c],
                                     action |-> "move", pos |-> Origin, excl |-> player[c]]]
    /\ ret' = [ret EXCEPT ![c] = "done"]
    /\ Goto(c, "bc_arg")
    /\ UNCHANGED << open, player, lroom, lvroom, todo, bmem, cur, out,
                    players, pRoom, pConn, pStatus, roomVars, msgs >>

\* handlePlayerMove: `"position": player.Position` in the envelope, read from
\* the record after the two reads of player.Room.  The copy of the two-word
\* struct is no atomic read: its first word
MovePos(c) ==
    /\ pc[c] = "mv_pos"
    /\ bmsg' = [bmsg EXCEPT ![c] = [@ EXCEPT !.pos = [@ EXCEPT !.x = pPos[player[c]].x]]]
    /\ Goto(c, "mv_pos_y")
    /\ UNCHANGED << open, player, lroom, lvroom, ret, todo, bmem, cur, out,
                    playerVars, roomVars, msgs >>

\* the second word of the copy of player.Position
MovePosY(c) ==
    /\ pc[c] = "mv_pos_y"
    /\ bmsg' = [bmsg EXCEPT ![c] = [@ EXCEPT !.pos = [@ EXCEPT !.y = pPos[player[c]].y]]]
    /\ Goto(c, "bc_lock")
    /\ UNCHANGED << open, player, lroom, lvroom, ret, todo, bmem, cur, out,
                    playerVars, roomVars, msgs >>

\* the arguments of broadcastToRoom(player.Room, Message{... RoomID: player.Room.ID ...})
\* first read of player.Room
BcArg(c) ==
    /\ pc[c] = "bc_arg"
    /\ lroom' = [lroom EXCEPT ![c] = pRoom[player[c]]]
    /\ Goto(c, "bc_arg2")
    /\ UNCHANGED << open, player, lvroom, ret, todo, bmem, bmsg, cur, out, playerVars, roomVars >>
    /\ UNCHANGED msgs

\* second read of player.Room, for player.Room.ID; then (but for the
\* position of a player_move, read next) broadcastToRoom is entered, where
\* room.mutex.RLock() of a nil room panics
BcArg2(c) ==
    /\ pc[c] = "bc_arg2"
    /\ IF pRoom[player[c]] = Nil \/ lroom[c] = Nil
       THEN Panic(c)
       ELSE /\ Goto(c, IF bmsg[c].type = "player_move" THEN "mv_pos" ELSE "bc_lock")
            /\ UNCHANGED << open, wlock, rlock, rmutex >>
    /\ UNCHANGED << workerVars, out, playerVars, rooms, nextInst, rid, members, tStatus, issued, rmutex >>
    /\ UNCHANGED msgs

\* ---- chat ---------------------------------------------------------------

\* handleChat: nothing without a room; else the text and the sender's
\* nickname are broadcast to the room with no exclusion
HandleChat(c, txt) ==
    LET p == player[c]
    IN  /\ ReadJSON(c)
        /\ p # Nil
        /\ cur' = [cur EXCEPT ![c] = [type |-> "chat", text |-> txt]]
        /\ out' = [out EXCEPT ![c] = << >>]
        /\ IF pRoom[p] = Nil
           THEN /\ Goto(c, "done")
                /\ UNCHANGED << bmsg, ret >>
           ELSE /\ bmsg' = [bmsg EXCEPT ![c] = [type |-> "chat", pid |-> p,
                                                 action |-> txt, pos |-> Origin, excl |-> Nil]]
                /\ ret' = [ret EXCEPT ![c] = "done"]
                /\ Goto(c, "bc_arg")
        /\ UNCHANGED << open, player, lroom, lvroom, todo, bmem, playerVars, roomVars >>

\* ---- player_action: complete_task ---------------------------------------

\* handlePlayerAction: nothing without a room; "complete_task" goes on to
\* handleCompleteTask, "interact" only logs
HandlePlayerAction(c, a, tid) ==
    LET p == player[c]
    IN  /\ ReadJSON(c)
        /\ p # Nil
        /\ cur' = [cur EXCEPT ![c] = [type |-> "player_action", action |-> a, task |-> tid,
                                         issue |-> "none"]]
        /\ out' = [out EXCEPT ![c] = << >>]
        /\ Goto(c, IF pRoom[p] = Nil \/ a # "complete_task" THEN "done" ELSE "ct_find")
        /\ UNCHANGED << open, player, lroom, lvroom, ret, todo, bmem, bmsg, playerVars, roomVars >>

\* the test without the status: any task that exists is completed
TaskMissing(tid, status) == tid # "welcome_task"

\* a test that lets through every task that is not completed
TaskDone(tid, status) == tid # "welcome_task" \/ status = "completed"

\* `task == nil || task.Status != "active"`: the request is dropped
TaskNotActive(tid, status) == tid # "welcome_task" \/ status # "active"

\* handleCompleteTask: the search of player.Room.GameState.Tasks (a nil
\* player.Room panics) and the test of the task found
CtFind(c) ==
    LET i == pRoom[player[c]]
    IN  /\ pc[c] = "ct_find"
        /\ IF i = Nil
           THEN /\ Panic(c)
                /\ UNCHANGED lroom
           ELSE /\ lroom' = [lroom EXCEPT ![c] = i]
                /\ Goto(c, IF TaskNotActive(cur[c].task, tStatus[i]) THEN "done" ELSE "ct_set")
                /\ UNCHANGED << open, wlock, rlock, rmutex >>
        /\ UNCHANGED << player, lvroom, ret, todo, bmem, bmsg, cur, out, playerVars,
                        rooms, nextInst, rid, members, tStatus, issued, rmutex >>
        /\ UNCHANGED msgs

\* handleCompleteTask: task.Status = "completed"
CtSet(c) ==
    /\ pc[c] = "ct_set"
    /\ tStatus' = [tStatus EXCEPT ![lroom[c]] = "completed"]
    /\ UNCHANGED issued
    /\ Goto(c, "ct_issue")
    /\ UNCHANGED << open, workerVars, out, playerVars, rooms, nextInst, rid, members,
                    wlock, rlock, rmutex >>
    /\ UNCHANGED msgs

\* an issuance error that sets the task back to "active"
CtIssueErrRollsBack(c) ==
    /\ tStatus' = [tStatus EXCEPT ![lroom[c]] = "active"]
    /\ UNCHANGED issued
    /\ Goto(c, "done")
    /\ UNCHANGED << open, wlock, rlock, rmutex >>

\* handleCompleteTask: `if err != nil { log.Printf(...); return }`
CtIssueErr(c) ==
    /\ Goto(c, "done")
    /\ UNCHANGED << open, tStatus, issued, wlock, rlock, rmutex >>

\* handleCompleteTask: s.vcService.IssueAchievementCredential(player.DID,
\* player.Room.GameID, ...) (a nil player.Room panics) and the test of err
CtIssue(c, res) ==
    /\ pc[c] = "ct_issue"
    /\ IF pRoom[player[c]] = Nil
       THEN /\ Panic(c)
            /\ UNCHANGED << tStatus, issued >>
       ELSE IF res = "err"
            THEN CtIssueErr(c)
            ELSE /\ issued' = [issued EXCEPT ![lroom[c]] = @ + 1]
                 /\ Goto(c, "ct_cred")
                 /\ UNCHANGED << open, tStatus, wlock, rlock, rmutex >>
    /\ cur' = [cur EXCEPT ![c] = [@ EXCEPT !.issue = res]]
    /\ UNCHANGED << player, lroom, lvroom, ret, todo, bmem, bmsg, out, playerVars,
                    rooms, nextInst, rid, members, rmutex >>
    /\ UNCHANGED msgs

\* handleCompleteTask: the credential envelope on player.Connection (a nil
\* Connection panics), then the task_update broadcast with no exclusion
CtCred(c) ==
    LET p == player[c]
    IN  /\ pc[c] = "ct_cred"
        /\ IF pConn[p] = Nil
           THEN /\ Panic(c)
                /\ UNCHANGED << out, bmsg, ret >>
           ELSE /\ out' = [out EXCEPT ![c] = WriteJSON(c, out[c], pConn[p],
                                   Env(pConn[p], p, "credential", p, "issued", Origin))]
                /\ bmsg' = [bmsg EXCEPT ![c] = [type |-> "task_update", pid |-> p,
                                                 action |-> "completed", pos |-> Origin, excl |-> Nil]]
                /\ ret' = [ret EXCEPT ![c] = "done"]
                /\ Goto(c, "bc_arg")
                /\ UNCHANGED << open, wlock, rlock, rmutex >>
        /\ UNCHANGED << player, lroom, lvroom, todo, bmem, cur, playerVars,
                        rooms, nextInst, rid, members, tStatus, issued, rmutex >>
        /\ UNCHANGED msgs

\* A task of a room becomes "active" (the Task lifecycle of the
\* specification, available -> active; no handler of the server does it).
ActivateTask(i) ==
    /\ i < nextInst
    /\ tStatus[i] = "available"
    /\ tStatus' = [tStatus EXCEPT ![i] = "active"]
    /\ UNCHANGED issued
    /\ UNCHANGED << open, pc, workerVars, out, playerVars, rooms, nextInst, rid, members,
                    wlock, rlock, rmutex, msgs >>

\* An active task of a room fails (the Task lifecycle of the specification,
\* active -> failed; no handler of the server does it).
FailTask(i) ==
    /\ i < nextInst
    /\ tStatus[i] = "active"
    /\ tStatus' = [tStatus EXCEPT ![i] = "failed"]
    /\ UNCHANGED issued
    /\ UNCHANGED << open, pc, workerVars, out, playerVars, rooms, nextInst, rid, members,
                    wlock, rlock, rmutex, msgs >>

\* ---- broadcastToRoom ----------------------------------------------------

\* A member whose Connection is nil for good (no client of the model holds its
\* DID): the loop body does nothing for it, whenever it is visited.
Dormant(m) == m \in Seated

\* room.mutex.RLock(); the range statement starts over room.Players
\* (the iterations over dormant members are not steps of the model)
BcLock(c) ==
    LET i == lroom[c]
    IN  /\ pc[c] = "bc_lock"
        /\ wlock[i] = Nil
        /\ rlock' = [rlock EXCEPT ![i] = @ \cup {c}]
        /\ todo' = [todo EXCEPT ![c] = {m \in members[i] : ~Dormant(m)}]
        /\ Goto(c, "bc_loop")
        /\ UNCHANGED << open, player, lroom, lvroom, ret, bmem, bmsg, cur, out, playerVars,
                        rooms, nextInst, rid, members, tStatus, issued, wlock, rmutex >>
        /\ UNCHANGED msgs

\* `playerID != excludePlayerID && player.Connection != nil`
BcTarget(m, excl) == m # excl /\ pConn[m] # Nil

\* one iteration of the range loop (map order: any member not yet visited),
\* up to the test of the `if`
BcVisit(c, m) ==
    /\ pc[c] = "bc_loop"
    /\ m \in todo[c]
    /\ todo' = [todo EXCEPT ![c] = @ \ {m}]
    /\ IF BcTarget(m, bmsg[c].excl)
       THEN /\ bmem' = [bmem EXCEPT ![c] = m]
            /\ Goto(c, "bc_write")
       ELSE UNCHANGED << bmem, pc >>
    /\ UNCHANGED << open, player, lroom, lvroom, ret, bmsg, cur, out, playerVars, roomVars >>
    /\ UNCHANGED msgs

\* the body of the `if`: player.Connection is read again for the call of
\* WriteJSON; handleDisconnect of another worker may have set it to nil since
\* the test (no lock orders the two), and WriteJSON on a nil *Conn panics
BcWrite(c) ==
    LET m == bmem[c]
    IN  /\ pc[c] = "bc_write"
        /\ bmem' = [bmem EXCEPT ![c] = Nil]
        /\ IF pConn[m] = Nil
           THEN /\ Panic(c)
                /\ UNCHANGED out
           ELSE /\ out' = [out EXCEPT ![c] = WriteJSON(c, out[c], pConn[m],
                                   Env(pConn[m], m, bmsg[c].type, bmsg[c].pid, bmsg[c].action, bmsg[c].pos))]
                /\ Goto(c, "bc_loop")
                /\ UNCHANGED << open, wlock, rlock, rmutex >>
        /\ UNCHANGED << player, lroom, lvroom, ret, todo, bmsg, cur, playerVars,
                        rooms, nextInst, rid, members, tStatus, issued, rmutex >>
        /\ UNCHANGED msgs

\* the same call when some peers have stopped reading: WriteJSON on the
\* connection of such a peer blocks in the transport and does not return
BcWriteLive(c) ==
    /\ pc[c] = "bc_write"
    /\ pConn[bmem[c]] \notin SlowPeers
    /\ BcWrite(c)

\* the loop is over: deferred room.mutex.RUnlock(), back to the caller
BcUnlock(c) ==
    /\ pc[c] = "bc_loop"
    /\ todo[c] = {}
    /\ rlock' = [rlock EXCEPT ![lroom[c]] = @ \ {c}]
    /\ Goto(c, ret[c])
    /\ UNCHANGED << open, workerVars, out, playerVars, rooms, nextInst, rid, members, tStatus, issued, wlock, rmutex >>
    /\ UNCHANGED msgs

\* ---- disconnect ---------------------------------------------------------

\* handleDisconnect: `player.Status = "offline"`
HandleDisconnect(c) ==
    /\ pc[c] = "disc"
    /\ pStatus' = [pStatus EXCEPT ![player[c]] = "offline"]
    /\ Goto(c, "disc_conn")
    /\ UNCHANGED << open, workerVars, out, players, pRoom, pConn, pPos, roomVars >>
    /\ UNCHANGED msgs

\* handleDisconnect: `player.Connection = nil`
DiscConn(c) ==
    /\ pc[c] = "disc_conn"
    /\ pConn' = [pConn EXCEPT ![player[c]] = Nil]
    /\ Goto(c, "disc_check")
    /\ UNCHANGED << open, workerVars, out, players, pRoom, pStatus, pPos, roomVars >>
    /\ UNCHANGED msgs

\* handleDisconnect: `if player.Room != nil` the player_update "disconnected"
\* broadcast; the membership is not touched
DiscCheck(c) ==
    LET p == player[c]
    IN  /\ pc[c] = "disc_check"
        /\ IF pRoom[p] = Nil
           THEN /\ Goto(c, "done")
                /\ UNCHANGED bmsg
           ELSE /\ bmsg' = [bmsg EXCEPT ![c] = [type |-> "player_update", pid |-> p,
                                           action |-> "disconnected", pos |-> Origin, excl |-> p]]
                /\ Goto(c, "bc_arg")
        /\ ret' = [ret EXCEPT ![c] = "done"]
        /\ UNCHANGED << open, player, lroom, lvroom, todo, bmem, cur, out, playerVars, roomVars >>
        /\ UNCHANGED msgs

\* ---- back to the loop ---------------------------------------------------

\* the handler has returned: handleConnection loops to conn.ReadJSON, or, after
\* handleDisconnect, returns and the deferred conn.Close() of HandleWebSocket
\* runs; the unwinding of a panic ends at the same conn.Close().  The
\* handler's locals are gone
Return(c) ==
    /\ pc[c] \in {"done", "panic"}
    /\ Goto(c, IF pc[c] = "panic" \/ cur[c].type = "disconnect" THEN "closed" ELSE "read")
    /\ lroom' = [lroom EXCEPT ![c] = Nil]
    /\ lvroom' = [lvroom EXCEPT ![c] = Nil]
    /\ ret' = [ret EXCEPT ![c] = "done"]
    /\ bmsg' = [bmsg EXCEPT ![c] = NoBcast]
    /\ cur' = [cur EXCEPT ![c] = NoMsg]
    /\ out' = [out EXCEPT ![c] = << >>]
    /\ todo' = [todo EXCEPT ![c] = {}]
    /\ open' = [open EXCEPT ![c] = @ /\ ~(pc[c] = "panic" \/ cur[c].type = "disconnect")]
    /\ UNCHANGED << player, bmem, playerVars, roomVars >>
    /\ UNCHANGED msgs

\* ---- the system ---------------------------------------------------------

\* the steps of getOrCreateRoom and joinRoom, with the entry of leaveRoom
JoinSteps(c) ==
    \/ GocCreate(c)
    \/ JoinLock(c)
    \/ JoinCheck(c)
    \/ JoinInsert(c)
    \/ JoinSetRoom(c)
    \/ JoinSpawn(c)
    \/ JoinSpawnY(c)
    \/ JoinReply(c)
    \/ LeaveCheck(c)
    \/ LeaveRead(c)

\* the steps of leaveRoom past room.mutex.Lock() and of handleLeaveRoom
LeaveSteps(c) ==
    \/ LeaveLock(c)
    \/ LeaveSetNil(c)
    \/ LeaveReg(c)
    \/ HLeaveRead(c)
    \/ LeaveReply(c)

\* the steps of broadcastToRoom and of handleDisconnect, and the return
BcSteps(c) ==
    \/ BcArg(c)
    \/ BcArg2(c)
    \/ BcLock(c)
    \/ \E m \in AllDIDs : BcVisit(c, m)
    \/ BcWrite(c)
    \/ BcUnlock(c)
    \/ HandleDisconnect(c)
    \/ DiscConn(c)
    \/ DiscCheck(c)
    \/ Return(c)

\* the steps of handleAuth past getOrCreatePlayer
AuthSteps(c) ==
    \/ AuthConn(c)
    \/ AuthStatus(c)
    \/ AuthReply(c)

\* the steps of handlePlayerMove past the test of player.Room
MoveSteps(c) ==
    \/ MoveX(c)
    \/ MoveY(c)
    \/ MovePos(c)
    \/ MovePosY(c)

\* the steps of handleCompleteTask
TaskSteps(c) ==
    \/ CtFind(c)
    \/ CtSet(c)
    \/ \E res \in IssueResults : CtIssue(c, res)
    \/ CtCred(c)

\* the steps of the worker of c inside a handler
Worker(c) == JoinSteps(c) \/ LeaveSteps(c) \/ BcSteps(c)

\* Two connections; a client may send any envelope at any time, authenticate
\* with any DID, again and again, and close.
Next ==
    \E c \in Pair :
        \/ Worker(c)
        \/ ReadError(c)
        \/ \E d \in Pair : HandleAuth(c, d)
        \/ GocpCreate(c)
        \/ AuthSteps(c)
        \/ \E why \in AuthFailures : HandleAuthFail(c, why)
        \/ \E r \in RoomIds : HandleJoinRoom(c, r)
        \/ HandleJoinRoomBad(c)
        \/ ErrTest(c)
        \/ ErrWrite(c)
        \/ HandleLeaveRoom(c)
        \/ \E pt \in MovePoints : HandlePlayerMove(c, pt)
        \/ MoveSteps(c)

Spec == Init /\ [][Next]_vars

\* The same clients, on a server whose room "default" is one short of its
\* capacity: MaxPlayers - 1 players joined it and disconnected.
InitFull == InitWith(Seated, MaxMsgs)

SpecFull == InitFull /\ [][Next]_vars

\* Two clients with a DID each, one room identifier, join and leave only:
\* longer runs of join_room and leave_room.
InitStale == InitWith({}, MaxMsgsStale)

NextStale ==
    \E c \in Pair :
        \/ Worker(c)
        \/ HandleAuth(c, c)
        \/ GocpCreate(c)
        \/ AuthSteps(c)
        \/ HandleJoinRoom(c, "default")
        \/ HandleLeaveRoom(c)
        \/ ReadError(c)

SpecStale == InitStale /\ [][NextStale]_vars

\* Three clients with a DID each and one room, join_room only; the third
\* client may close.  Broadcasts with a sender, a member that goes away and a
\* member that listens.  (A second join_room of a member stops in leaveRoom at
\* room.mutex.Lock(), which joinRoom holds: LeaveSteps are out of reach.)
InitBcast == InitWith({}, MaxMsgsBcast)

NextBcast ==
    \/ \E c \in Conns :
          \/ JoinSteps(c)
          \/ BcSteps(c)
          \/ HandleAuth(c, c)
          \/ GocpCreate(c)
          \/ AuthSteps(c)
          \/ HandleJoinRoom(c, "default")
    \/ ReadError(3)

SpecBcast == InitBcast /\ [][NextBcast]_vars

\* One client on one connection, which authenticates with one DID and then
\* with another: longer runs of a single worker.
InitSolo == InitWith({}, MaxMsgsSolo)

NextSolo ==
    \/ Worker(1)
    \/ ReadError(1)
    \/ \E d \in Pair : HandleAuth(1, d)
    \/ GocpCreate(1)
    \/ AuthSteps(1)
    \/ \E r \in RoomIds : HandleJoinRoom(1, r)
    \/ HandleLeaveRoom(1)
    \/ \E pt \in MovePoints : HandlePlayerMove(1, pt)
    \/ MoveSteps(1)

SpecSolo == InitSolo /\ [][NextSolo]_vars

\* Two clients with a DID each and one room, whose task has become active:
\* player_action with complete_task, with a credential service that issues
\* or fails.
InitTask == InitWith({}, MaxMsgsTask)

NextTask ==
    \/ \E c \in Pair :
          \/ JoinSteps(c)
          \/ BcSteps(c)
          \/ TaskSteps(c)
          \/ ReadError(c)
          \/ HandleAuth(c, c)
          \/ GocpCreate(c)
          \/ AuthSteps(c)
          \/ HandleJoinRoom(c, "default")
          \/ \E a \in Actions, tid \in TaskIds : HandlePlayerAction(c, a, tid)
    \/ \E i \in Insts : ActivateTask(i) \/ FailTask(i)

SpecTask == InitTask /\ [][NextTask]_vars

\* Two clients with a DID each and one room, and nothing but the server's own
\* handlers: player_action with every action and task identifier.  The steps
\* of handleCompleteTask past the test of the status are left out; no worker
\* is ever at one of them here (C38_NoTaskEverActive).
InitInbound == InitWith({}, MaxMsgsInbound)

NextInbound ==
    \E c \in Pair :
        \/ JoinSteps(c)
        \/ BcSteps(c)
        \/ CtFind(c)
        \/ ReadError(c)
        \/ HandleAuth(c, c)
        \/ GocpCreate(c)
        \/ AuthSteps(c)
        \/ HandleJoinRoom(c, "default")
        \/ \E a \in InboundActions, tid \in TaskIds : HandlePlayerAction(c, a, tid)

SpecInbound == InitInbound /\ [][NextInbound]_vars

\* Three clients with a DID each and one room, join_room and leave_room: the
\* room fills up to three members, past the length of the spawn list, and
\* members leave and join again.
InitSpawn == InitWith({}, MaxMsgsSpawn)

NextSpawn ==
    \E c \in Conns :
        \/ JoinSteps(c)
        \/ LeaveSteps(c)
        \/ BcLock(c)
        \/ \E m \in AllDIDs : BcVisit(c, m)
        \/ BcWrite(c)
        \/ BcUnlock(c)
        \/ Return(c)
        \/ HandleAuth(c, c)
        \/ GocpCreate(c)
        \/ AuthSteps(c)
        \/ HandleJoinRoom(c, "default")
        \/ HandleLeaveRoom(c)

SpecSpawn == InitSpawn /\ [][NextSpawn]_vars

\* The three clients of SpecSpawn when the third has stopped reading what is
\* broadcast to it: the deliveries to it never complete.
NextSlow ==
    \E c \in Conns :
        \/ JoinSteps(c)
        \/ LeaveSteps(c)
        \/ BcLock(c)
        \/ \E m \in AllDIDs : BcVisit(c, m)
        \/ BcWriteLive(c)
        \/ BcUnlock(c)
        \/ Return(c)
        \/ HandleAuth(c, c)
        \/ GocpCreate(c)
        \/ AuthSteps(c)
        \/ HandleJoinRoom(c, "default")
        \/ HandleLeaveRoom(c)

SpecSlow == InitSpawn /\ [][NextSlow]_vars

\* Two clients with a DID each and one room: the first sends player_move and
\* chat, one after the other, and the second listens; either may close.
InitOrder == InitWith({}, MaxMsgsOrder)

NextOrder ==
    \/ \E c \in Pair :
          \/ JoinSteps(c)
          \/ BcSteps(c)
          \/ ReadError(c)
          \/ HandleAuth(c, c)
          \/ GocpCreate(c)
          \/ AuthSteps(c)
          \/ HandleJoinRoom(c, "default")
    \/ \E pt \in MovePoints : HandlePlayerMove(1, pt)
    \/ MoveSteps(1)
    \/ \E txt \in ChatTexts : HandleChat(1, txt)

SpecOrder == InitOrder /\ [][NextOrder]_vars

\* Two connections that authenticate with the same DID and one room, whose
\* task has become active: complete_task of a session that two connections
\* hold, with either of them closing.
InitShare == InitWith({}, MaxMsgsShare)

NextShare ==
    \/ \E c \in Pair :
          \/ JoinSteps(c)
          \/ BcSteps(c)
          \/ TaskSteps(c)
          \/ ReadError(c)
          \/ HandleAuth(c, 1)
          \/ GocpCreate(c)
          \/ AuthSteps(c)
          \/ HandleJoinRoom(c, "default")
          \/ HandlePlayerAction(c, "complete_task", "welcome_task")
    \/ \E i \in Insts : ActivateTask(i)

SpecShare == InitShare /\ [][NextShare]_vars

\* Two clients with a DID each and two room identifiers, join_room only: a
\* member of one room joins the other, and both may do so at once.
InitMove == InitWith({}, MaxMsgsMove)

NextMove ==
    \E c \in Pair :
        \/ JoinSteps(c)
        \/ LeaveLock(c)
        \/ LeaveSetNil(c)
        \/ LeaveReg(c)
        \/ BcLock(c)
        \/ \E m \in AllDIDs : BcVisit(c, m)
        \/ BcWrite(c)
        \/ BcUnlock(c)
        \/ Return(c)
        \/ HandleAuth(c, c)
        \/ GocpCreate(c)
        \/ AuthSteps(c)
        \/ \E r \in RoomIds : HandleJoinRoom(c, r)

SpecMove == InitMove /\ [][NextMove]_vars

\* Two clients with a DID each and one room, which send every kind of
\* envelope: frames that do not decode, unknown types, envelopes before auth,
\* envelopes with malformed data, and join_room, leave_room, player_move,
\* chat and the player_action "interact".
InitProto == InitWith({}, MaxMsgsProto)

NextProto ==
    \E c \in Pair :
        \/ Worker(c)
        \/ ReadMalformed(c)
        \/ UnknownType(c)
        \/ \E t \in SessionTypes : NoSession(c, t)
        \/ \E t \in BadDataTypes : BadData(c, t)
        \/ HandleAuth(c, c)
        \/ GocpCreate(c)
        \/ AuthSteps(c)
        \/ HandleJoinRoom(c, "default")
        \/ HandleLeaveRoom(c)
        \/ \E pt \in MovePoints : HandlePlayerMove(c, pt)
        \/ MoveSteps(c)
        \/ \E txt \in ChatTexts : HandleChat(c, txt)
        \/ \E tid \in TaskIds : HandlePlayerAction(c, "interact", tid)

SpecProto == InitProto /\ [][NextProto]_vars

\* Two clients with a DID each and one room, join_room and chat; a client may
\* close.
InitChat == InitWith({}, MaxMsgsChat)

NextChat ==
    \E c \in Pair :
        \/ JoinSteps(c)
        \/ BcSteps(c)
        \/ ReadError(c)
        \/ HandleAuth(c, c)
        \/ GocpCreate(c)
        \/ AuthSteps(c)
        \/ HandleJoinRoom(c, "default")
        \/ \E txt \in ChatTexts : HandleChat(c, txt)

SpecChat == InitChat /\ [][NextChat]_vars

\* Two connections that authenticate, with either of two DIDs or with an auth
\* that fails, join the default room, and close: every interleaving of
\* getOrCreatePlayer and of the unlocked steps of handleAuth with the
\* handlers that use the session.
InitAuth == InitWith({}, MaxMsgsAuth)

NextAuth ==
    \E c \in Pair :
        \/ JoinSteps(c)
        \/ BcSteps(c)
        \/ ReadError(c)
        \/ \E d \in Pair : HandleAuth(c, d)
        \/ GocpCreate(c)
        \/ AuthSteps(c)
        \/ \E why \in AuthFailures : HandleAuthFail(c, why)
        \/ HandleJoinRoom(c, "default")

SpecAuth == InitAuth /\ [][NextAuth]_vars

\* ---- properties ---------------------------------------------------------

\* instances that exist
Created == {i \in Insts : i < nextInst}

\* C1: in every reachable state no room has more members than its capacity,
\* under any interleaving of join_room, leave_room and disconnect.
C1_Capacity == \A i \in Insts : Cardinality(members[i]) <= MaxPlayers

\* a room filled to its capacity has turned a join_room down
C1_Witness ==
    \E c \in Conns, i \in Created :
        /\ Cardinality(members[i]) = MaxPlayers
        /\ pc[c] = "done"
        /\ cur[c].type = "join_room"
        /\ lroom[c] = i
        /\ \E n \in 1..Len(out[c]) : out[c][n].type = "error" /\ out[c][n].action = "room_is_full"

\* no other connection has a session
OnlySession(c) == \A k \in Conns \ {c} : player[k] = Nil

\* C2: when the receive loop of a connection ends while its session is a member
\* of a room (handleDisconnect found player.Room set and announced the
\* disconnect to that room), the session is out of that room's membership when
\* handleDisconnect has returned and the connection is about to be released.
\* Stated for the plainest case, where no other connection has a session.
C2_DisconnectLeavesRoom ==
    \A c \in Conns :
        (pc[c] = "done" /\ cur[c].type = "disconnect" /\ lroom[c] # Nil /\ OnlySession(c))
            => player[c] \notin members[lroom[c]]

\* C3: every room the registry holds has at least one member.
C3_NoEmptyRoomRegistered ==
    \A r \in RoomIds : rooms[r] # Nil => members[rooms[r]] # {}

\* C4: the registry removal that follows a leave removes only the room that the
\* leave emptied: a room instance that has members is never taken out of the
\* registry.
C4_RemovesOnlyEmptiedRoom ==
    [][ \A r \in RoomIds :
          (rooms[r] # Nil /\ rooms'[r] = Nil) => members[rooms[r]] = {} ]_vars

\* sessions that joined instance i and have not left it
Joined(i) == {p \in members[i] : pRoom[p] = i}

\* C5: at every instant at most one room instance with a given identifier has
\* members: sessions that joined the same identifier and have not left are in
\* the same instance.
C5_UniqueLiveRoomId ==
    \A i, j \in Created :
        (rid[i] = rid[j] /\ Joined(i) # {} /\ Joined(j) # {}) => i = j

\* C7: in every reachable state each session is in the membership map of at
\* most one room.
C7_AtMostOneRoom ==
    \A p \in AllDIDs : Cardinality({i \in Created : p \in members[i]}) <= 1

\* C6: getOrCreateRoom is atomic per identifier.  A call that finds the
\* identifier in the registry returns the instance held and creates nothing; a
\* call that creates an instance stores it under an identifier that the
\* registry does not hold at that instant, and returns it.  So of the callers
\* that race for an unseen identifier exactly one creates an instance, and all
\* get that instance.
C6_GetOrCreateAtomic ==
    [][ /\ nextInst' # nextInst =>
                \E c \in Conns : pc[c] = "goc_create" /\ pc'[c] = "join_lock"
        /\ \A c \in Conns :
          /\ (pc[c] = "read" /\ pc'[c] = "join_lock") =>
                /\ rooms[cur'[c].room] # Nil
                /\ lroom'[c] = rooms[cur'[c].room]
                /\ rooms' = rooms /\ nextInst' = nextInst
          /\ (pc[c] = "goc_create" /\ pc'[c] = "join_lock") =>
                /\ rooms[cur[c].room] = Nil
                /\ nextInst' = nextInst + 1
                /\ lroom'[c] = nextInst
                /\ rooms' = [rooms EXCEPT ![cur[c].room] = nextInst]
                /\ rid'[nextInst] = cur[c].room ]_vars

\* two workers have called getOrCreateRoom for the same unseen identifier, one
\* after the other, before either joined: one instance exists, both hold it
C6_Witness ==
    \E c, k \in Conns :
        /\ c # k
        /\ pc[c] = "join_lock" /\ pc[k] = "join_lock"
        /\ cur[c].room = cur[k].room
        /\ lroom[c] = lroom[k]
        /\ rooms[cur[c].room] = lroom[c]
        /\ members[lroom[c]] = {}
        /\ nextInst = 2

\* the envelopes of the running broadcast of c written for session m
BcSent(c, m) ==
    {n \in 1..Len(out[c]) : out[c][n].type = bmsg[c].type /\ out[c][n].sess = m}

\* the connections of session e: its Connection, and those whose worker holds it
ConnsOf(e) == {k \in Conns : pConn[e] = k \/ player[k] = e}

\* C8: a broadcast with exclusion id E writes on no connection of session E,
\* writes at most once for a session, and a member other than E whose
\* connection is up when the loop visits it gets the envelope.  Stated for the
\* plainest case, where no other connection has a session.
C8_BroadcastExcludes ==
    [][ \A c \in Conns : OnlySession(c) =>
          LET e == bmsg[c].excl IN
          /\ (pc[c] = "bc_loop" /\ todo'[c] # todo[c]) =>
                \A m \in todo[c] \ todo'[c] :
                    (m # e /\ pConn[m] # Nil)
                        => pc'[c] = "bc_write" /\ bmem'[c] = m /\ BcSent(c, m) = {}
          /\ (pc[c] = "bc_write" /\ pc'[c] = "bc_loop") =>
                LET m == bmem[c] IN
                /\ m # e
                /\ open[pConn[m]] =>
                      /\ Len(out'[c]) = Len(out[c]) + 1
                      /\ out'[c][Len(out'[c])].sess = m
                /\ (Len(out'[c]) > Len(out[c]) /\ e # Nil) =>
                      out'[c][Len(out'[c])].to \notin ConnsOf(e) ]_vars

\* the members of the room of c's broadcast, the excluded one apart
Others(c) == members[lroom[c]] \ {bmsg[c].excl}

\* the connection of member m is up
Live(m) == pConn[m] # Nil /\ open[pConn[m]]

\* the worker of c is inside the loop of broadcastToRoom
InLoop(loc) == loc \in {"bc_loop", "bc_write"}

\* C9: a send that fails for one member does not stop the fan-out.  A step of
\* the loop changes no room, membership or session state, and when the worker
\* leaves the loop every member but the excluded one whose connection is up
\* has been sent the envelope once.
C9_FailedSendDoesNotStop ==
    [][ \A c \in Conns :
          /\ (InLoop(pc[c]) /\ (pc'[c] # pc[c] \/ todo'[c] # todo[c])) =>
                UNCHANGED << player, playerVars, rooms, rid, members, tStatus >>
          /\ (InLoop(pc[c]) /\ ~InLoop(pc'[c])) =>
                \A m \in Others(c) : Live(m) => Cardinality(BcSent(c, m)) = 1 ]_vars

\* C10: when member A has sent a well-formed player_move (x,y) and the
\* broadcast is over, A's stored position is (x,y), every other member whose
\* connection is up has been sent exactly one player_move with A's id and
\* (x,y), and no player_move was written on A's connection.  Stated for the
\* plainest case, where no other connection has a session.
C10_MoveNoEcho ==
    \A c \in Conns :
        (/\ pc[c] = "bc_loop" /\ todo[c] = {}
         /\ cur[c].type = "player_move"
         /\ player[c] \in members[lroom[c]]
         /\ OnlySession(c))
        => /\ pPos[player[c]] = cur[c].pos
           /\ \A m \in Others(c) : Live(m) =>
                 /\ Cardinality(BcSent(c, m)) = 1
                 /\ \A n \in BcSent(c, m) :
                       out[c][n].pid = player[c] /\ out[c][n].pos = cur[c].pos
           /\ \A n \in 1..Len(out[c]) :
                 out[c][n].type = "player_move" => out[c][n].to # c

\* the worker of c handles a complete_task for the task of its room
CompletingTask(c) ==
    /\ cur[c].type = "player_action"
    /\ cur[c].action = "complete_task"
    /\ cur[c].task = "welcome_task"

\* C11: once a task is completed it stays completed, and a complete_task for
\* it that a member sends afterwards is dropped at the test of the status: it
\* changes no room, task or session state, reaches no issuance call and
\* writes no envelope.
C11_CompletedTaskIgnored ==
    [][ \A c \in Conns, i \in Insts :
          /\ tStatus[i] = "completed" => tStatus'[i] = "completed"
          /\ (pc[c] = "ct_find" /\ pc'[c] # "ct_find" /\ CompletingTask(c)
                /\ pRoom[player[c]] = i /\ tStatus[i] = "completed") =>
                /\ pc'[c] = "done"
                /\ out'[c] = << >>
                /\ UNCHANGED << playerVars, rooms, nextInst, rid, members, tStatus >> ]_vars

\* a complete_task for a task that is completed has been handled: nothing was
\* issued and nothing written
C11_Witness ==
    \E c \in Conns :
        /\ pc[c] = "done" /\ CompletingTask(c)
        /\ lroom[c] # Nil /\ tStatus[lroom[c]] = "completed"
        /\ cur[c].issue = "none"
        /\ out[c] = << >>

\* C12: when the issuance call of a task that has just been completed returns
\* an error, the task is and stays "completed", and the failure changes no
\* membership, no registry entry and no session field.
C12_IssueErrorKeepsCompleted ==
    [][ \A c \in Conns :
          (pc[c] = "ct_issue" /\ pc'[c] # "ct_issue" /\ cur'[c].issue = "err") =>
              /\ tStatus[lroom[c]] = "completed"
              /\ tStatus'[lroom[c]] = "completed"
              /\ UNCHANGED << playerVars, rooms, nextInst, rid, members, tStatus >> ]_vars

\* a completion whose issuance failed has ended with the task completed
C12_Witness ==
    \E c \in Conns :
        /\ pc[c] = "done" /\ CompletingTask(c)
        /\ cur[c].issue = "err"
        /\ tStatus[lroom[c]] = "completed"

\* the envelopes of type t that the worker of c has delivered for session m
SentTo(c, t, m) ==
    {n \in 1..Len(out[c]) : out[c][n].type = t /\ out[c][n].sess = m}

\* the worker of c has completed the task of its room and its handler has ended
Completed(c) ==
    /\ pc[c] = "done" /\ CompletingTask(c)
    /\ cur[c].issue \in IssueResults

\* C13: when the completion of an active task has been handled, every member
\* of the room whose connection is up, the completing one included, has been
\* delivered the task_update exactly once, whether the issuance succeeded or
\* failed.
C13_TaskUpdateToEveryMember ==
    \A c \in Conns : Completed(c) =>
        \A m \in members[lroom[c]] :
            Live(m) => Cardinality(SentTo(c, "task_update", m)) = 1

\* C14: when the issuance of a completion has failed, the connection of the
\* rewarded session has been delivered an error envelope, and no other
\* connection has.
C14_IssueErrorReported ==
    \A c \in Conns :
        (Completed(c) /\ cur[c].issue = "err" /\ Live(player[c])) =>
            /\ SentTo(c, "error", player[c]) # {}
            /\ \A n \in 1..Len(out[c]) :
                  out[c][n].type = "error" => out[c][n].to = pConn[player[c]]

\* the members of room i that have not gone: the sessions in its membership
\* map whose connection has not been released by handleDisconnect
Present(i) == {m \in members[i] : ~(pConn[m] = Nil /\ pStatus[m] = "offline")}

\* C15: when the leave_room of the last member of a room has taken the session
\* out (leaveRoom returns to handleLeaveRoom and nobody is left in the room),
\* the registry no longer holds the room; and an instance that getOrCreateRoom
\* creates is new, with no member and the default game state, whatever was
\* done to the game state of the rooms before it.
C15_LastLeaveRemovesRoom ==
    [][ /\ \A c \in Conns :
              (/\ pc[c] \in {"leave_setnil", "leave_reg"} /\ pc'[c] = "leave_reply"
               /\ Present(lvroom[c]) = {})
              => \A r \in RoomIds : rooms'[r] # lvroom[c]
        /\ nextInst' # nextInst =>
              /\ \A r \in RoomIds : rooms[r] # nextInst
              /\ members'[nextInst] = {}
              /\ tStatus'[nextInst] = DefaultTaskStatus ]_vars

\* the same, for a room whose membership map is empty after the leave
C15_EmptyMapRemovesRoom ==
    [][ \A c \in Conns :
              (/\ pc[c] \in {"leave_setnil", "leave_reg"} /\ pc'[c] = "leave_reply"
               /\ members[lvroom[c]] = {})
              => \A r \in RoomIds : rooms'[r] # lvroom[c] ]_vars

\* the worker of c is in leaveRoom, called by joinRoom for another room, and
\* waits for the mutex of the room it leaves
MoveWaits(c) ==
    /\ pc[c] = "leave_lock" /\ cur[c].type = "join_room"
    /\ lvroom[c] # lroom[c]
    /\ wlock[lvroom[c]] # Nil

\* C16: a join_room of a member of room R1 for another room R2 with spare
\* capacity completes: the worker is never caught in a wait that cannot end
\* (it waits for the mutex of R1 while the holder of that mutex waits for a
\* mutex the worker holds); when joinRoom has returned the session is a
\* member of R2 and not of R1; the session is never in two membership maps;
\* and when leaveRoom has returned with R1 empty the registry does not hold
\* R1.
C16_MoveBetweenRooms ==
    /\ \A c \in Conns : MoveWaits(c) =>
           LET k == wlock[lvroom[c]]
           IN  ~(MoveWaits(k) /\ wlock[lvroom[k]] = c)
    /\ \A c \in Conns :
           (pc[c] = "join_reply" /\ lvroom[c] # Nil /\ lvroom[c] # lroom[c]) =>
               /\ player[c] \in members[lroom[c]]
               /\ player[c] \notin members[lvroom[c]]
    /\ \A p \in DIDs : Cardinality({i \in Created : p \in members[i]}) <= 1
    /\ \A c \in Conns :
           (pc[c] = "join_insert" /\ lvroom[c] # Nil /\ members[lvroom[c]] = {}) =>
               \A r \in RoomIds : rooms[r] # lvroom[c]

\* the parts of C16 other than the wait
C16_MoveExceptWait ==
    /\ \A c \in Conns :
           (pc[c] = "join_reply" /\ lvroom[c] # Nil /\ lvroom[c] # lroom[c]) =>
               /\ player[c] \in members[lroom[c]]
               /\ player[c] \notin members[lvroom[c]]
    /\ \A p \in DIDs : Cardinality({i \in Created : p \in members[i]}) <= 1
    /\ \A c \in Conns :
           (pc[c] = "join_insert" /\ lvroom[c] # Nil /\ members[lvroom[c]] = {}) =>
               \A r \in RoomIds : rooms[r] # lvroom[c]

\* C17: a join_room for a room at its capacity fails.  The step of joinRoom
\* that finds the room full changes no membership, no room reference and no
\* registry entry and goes on to sendErrorToPlayer; its test of the connection
\* handle goes on to the write; the write delivers one error envelope on the
\* requester's connection, and with it the handler ends, having written
\* nothing else to anyone.
C17_FullRoomJoinFails ==
    [][ \A c \in Conns :
          /\ (pc[c] = "join_lock" /\ pc'[c] # "join_lock"
                /\ RoomIsFull(Cardinality(members[lroom[c]]))) =>
                /\ pc'[c] = "err_test"
                /\ out'[c] = << >>
                /\ UNCHANGED << members, pRoom, rooms >>
          /\ (pc[c] = "err_test" /\ pc'[c] # "err_test"
                /\ cur[c].type = "join_room") =>
                /\ pc'[c] = "err_write"
                /\ out'[c] = << >>
                /\ UNCHANGED << members, pRoom, rooms >>
          /\ (pc[c] = "err_write" /\ pc'[c] # "err_write"
                /\ cur[c].type = "join_room") =>
                /\ pc'[c] = "done"
                /\ out'[c] = << ErrorEnv(c, player[c], "room_is_full") >>
                /\ UNCHANGED << members, pRoom, rooms >> ]_vars

\* the same, for a requester whose session has its connection handle set to
\* the requester's connection at each of the three steps
C17_OwnConnection ==
    [][ \A c \in Conns :
          /\ (pc[c] = "join_lock" /\ pc'[c] # "join_lock" /\ pConn[player[c]] = c
                /\ RoomIsFull(Cardinality(members[lroom[c]]))) =>
                /\ pc'[c] = "err_test"
                /\ out'[c] = << >>
                /\ UNCHANGED << members, pRoom, rooms >>
          /\ (pc[c] = "err_test" /\ pc'[c] # "err_test" /\ pConn[player[c]] = c
                /\ cur[c].type = "join_room") =>
                /\ pc'[c] = "err_write"
                /\ out'[c] = << >>
                /\ UNCHANGED << members, pRoom, rooms >>
          /\ (pc[c] = "err_write" /\ pc'[c] # "err_write" /\ pConn[player[c]] = c
                /\ cur[c].type = "join_room") =>
                /\ pc'[c] = "done"
                /\ out'[c] = << ErrorEnv(c, player[c], "room_is_full") >>
                /\ UNCHANGED << members, pRoom, rooms >> ]_vars

\* C18: an auth that fails on a connection without a session leaves the
\* connection without one, creates no session record and changes no session,
\* delivers exactly one error envelope, on that connection, and leaves the
\* connection open with the handler ended; and a valid auth read on an open
\* connection without a session gives it the session of the DID, from the
\* record found or from the one created, when handleAuth returns.
C18_FailedAuthLeavesNoSession ==
    [][ \A c \in Conns :
          /\ (pc[c] = "read" /\ player[c] = Nil /\ cur'[c].type = "auth_bad") =>
                /\ player'[c] = Nil
                /\ UNCHANGED << playerVars, roomVars >>
                /\ out' = [out EXCEPT ![c] = << ErrorEnv(c, Nil, cur'[c].why) >>]
                /\ open'[c]
                /\ pc'[c] = "done"
          /\ (pc[c] = "read" /\ player[c] = Nil /\ cur'[c].type = "auth") =>
                /\ player'[c] = Nil
                /\ \/ pc'[c] = "auth_conn" /\ PlayerExists(players, cur'[c].did)
                                          /\ players' = players
                   \/ pc'[c] = "gocp_create" /\ ~PlayerExists(players, cur'[c].did)
          /\ (pc[c] = "gocp_create" /\ pc'[c] # "gocp_create") =>
                /\ pc'[c] = "auth_conn"
                /\ PlayerExists(players', cur[c].did)
          /\ (pc[c] \in {"auth_conn", "auth_status"} /\ pc'[c] # pc[c]) =>
                /\ pc'[c] \in {"auth_status", "auth_reply"}
                /\ player'[c] = player[c]
                /\ players' = players
          /\ (pc[c] = "auth_reply" /\ pc'[c] # "auth_reply") =>
                /\ pc'[c] = "done"
                /\ PlayerExists(players, cur[c].did)
                /\ player'[c] = cur[c].did ]_vars

\* a failed auth has been answered on a connection that has no session
C18_Witness ==
    \E c \in Conns :
        /\ pc[c] = "done" /\ cur[c].type = "auth_bad"
        /\ player[c] = Nil /\ open[c]
        /\ Len(out[c]) = 1 /\ out[c][1].type = "error" /\ out[c][1].to = c

\* C19: the session table holds at most one record for a DID in every
\* reachable state, whatever the interleaving of auths with the same DID on
\* different connections; an auth for a DID that has a record creates none and
\* hands the worker that record when handleAuth returns.
C19_OneRecordPerIdentity ==
    [][ /\ \A d \in AllDIDs : players[d] <= 1 /\ players'[d] <= 1
        /\ \A c \in Conns :
              /\ (pc[c] = "read" /\ cur'[c].type = "auth"
                    /\ PlayerExists(players, cur'[c].did)) =>
                      /\ players' = players
                      /\ pc'[c] = "auth_conn"
              /\ (pc[c] \in {"auth_conn", "auth_status", "auth_reply"}
                    /\ pc'[c] # pc[c]) =>
                      /\ players' = players
                      /\ players[cur[c].did] = 1
              /\ (pc[c] = "auth_reply" /\ pc'[c] # "auth_reply") =>
                      /\ player'[c] = cur[c].did
                      /\ pc'[c] = "done" ]_vars

\* two connections have authenticated with one DID and hold its one record
C19_Witness ==
    \E c, k \in Conns :
        /\ c # k
        /\ player[c] # Nil /\ player[c] = player[k]
        /\ players[player[c]] = 1
        /\ pc[k] = "done" /\ cur[k].type = "auth"

\* C20: at any instant a session record is held by the worker of at most one
\* connection.
C20_OneWorkerPerSession ==
    \A c, k \in Conns :
        (c # k /\ player[c] # Nil) => player[c] # player[k]

\* C21: every error envelope is delivered on the connection whose inbound
\* envelope caused it: the error envelopes the worker of connection c writes
\* while it handles an envelope read from c are delivered on c, also when two
\* connections are authenticated with one DID.
C21_ErrorToCausingConnection ==
    \A c \in Conns : \A n \in 1..Len(out[c]) :
        out[c][n].type = "error" => out[c][n].to = c

\* C22: a player_move, chat, player_action or complete_task whose data is
\* malformed is answered with one error envelope, delivered on the sender's
\* connection and nowhere else, and changes no room, task or session state.
C22_MalformedDataReported ==
    [][ \A c \in Conns :
          (pc[c] = "read" /\ cur'[c].type = "bad_data") =>
              /\ UNCHANGED << player, playerVars, roomVars >>
              /\ Len(out'[c]) = 1
              /\ out'[c][1].type = "error"
              /\ out'[c][1].to = c ]_vars

\* the same without the error envelope: malformed data changes no state
C22_MalformedDataChangesNothing ==
    [][ \A c \in Conns :
          (pc[c] = "read" /\ cur'[c].type = "bad_data") =>
              UNCHANGED << player, playerVars, roomVars >> ]_vars

\* the worker of c has read a frame that does not decode as an envelope
FrameRejected(c) == cur[c].type = "disconnect" /\ cur[c].frame = "malformed"

\* C23: a frame that cannot be decoded is answered with one error envelope on
\* the sender's connection; the connection stays open, the session keeps its
\* connection, its status and its room, and the worker goes back to read the
\* next envelope.
C23_MalformedFrameKeepsConnection ==
    [][ \A c \in Conns :
          /\ (pc[c] = "read" /\ FrameRejected(c)') =>
                /\ pc'[c] = "done"
                /\ Len(out'[c]) = 1 /\ out'[c][1].type = "error" /\ out'[c][1].to = c
                /\ UNCHANGED << player, playerVars, roomVars >>
          /\ (FrameRejected(c) /\ pc'[c] # pc[c]) =>
                /\ open'[c]
                /\ pc'[c] = "read"
                /\ UNCHANGED << player, playerVars, roomVars >> ]_vars

\* a frame that cannot be decoded ends the connection: whenever such a frame
\* has been read the worker is on its way out, and its steps lead to the
\* connection closed
C23_MalformedFrameCloses ==
    [][ \A c \in Conns :
          (FrameRejected(c) /\ pc[c] \in {"done", "panic"} /\ pc'[c] # pc[c]) =>
              pc'[c] = "closed" /\ ~open'[c] ]_vars

\* the worker of c handles an envelope that conn.ReadJSON decoded
Decoded(c) == cur[c].type \notin {"none", "disconnect"}

\* the worker of c waits in leaveRoom for a room mutex that it holds itself
SelfWait(c) == pc[c] = "leave_lock" /\ wlock[lvroom[c]] = c

\* C24: no decoded envelope ends the connection.  While the worker handles a
\* decoded envelope of any type it does not panic (which would unwind
\* handleConnection and close the connection), it does not close the
\* connection, and it is not caught in a wait that cannot end, so that it
\* goes on to read the next envelope; and an envelope of unknown type changes
\* no state and writes nothing.
C24_DecodedEnvelopeKeepsLoop ==
    [][ \A c \in Conns :
          /\ Decoded(c) =>
                /\ pc'[c] \notin {"panic", "closed"}
                /\ open'[c] = open[c]
                /\ ~SelfWait(c)'
          /\ (pc[c] = "read" /\ cur'[c].type = "unknown") =>
                /\ pc'[c] = "done"
                /\ out'[c] = << >>
                /\ UNCHANGED << player, playerVars, roomVars >> ]_vars

\* the envelope types whose handler needs the session to be in a room
RoomTypes == {"leave_room", "player_move", "player_action", "chat", "bad_data"}

\* C25: precondition failures are silently ignored.  An envelope other than
\* auth read on a connection without a session, and a leave_room,
\* player_move, player_action or chat read from a session that is in no room,
\* ends its handler in the step that reads it, with no state changed and no
\* envelope written to any connection.
C25_PreconditionFailureIgnored ==
    [][ \A c \in Conns :
          (/\ pc[c] = "read" /\ pc'[c] # "read"
           /\ \/ player[c] = Nil /\ cur'[c].type \in {"no_session"} \cup RoomTypes \cup {"join_room"}
              \/ player[c] # Nil /\ pRoom[player[c]] = Nil /\ cur'[c].type \in RoomTypes)
          => /\ pc'[c] = "done"
             /\ out'[c] = << >>
             /\ UNCHANGED << open, player, playerVars, roomVars >> ]_vars

\* an envelope before auth has been dropped on one connection, and a chat of
\* a session without a room on another
C25_Witness ==
    \E c, k \in Conns :
        /\ pc[c] = "done" /\ cur[c].type = "no_session" /\ player[c] = Nil
        /\ out[c] = << >>
        /\ pc[k] = "done" /\ cur[k].type = "chat"
        /\ player[k] # Nil /\ pRoom[player[k]] = Nil
        /\ out[k] = << >>

\* C26: when the handler of a successful join_room or of a leave_room of a
\* member has made its broadcast, the sender's connection has been delivered
\* exactly one reply of the type of the request, every other member of the
\* room whose connection is up has been delivered exactly one player_update
\* ("joined", "left"), and the sender's connection none.
C26_ReplyAndUpdate ==
    [][ \A c \in Conns :
          (/\ InLoop(pc[c]) /\ ~InLoop(pc'[c])
           /\ bmsg[c].type = "player_update" /\ bmsg[c].action \in {"joined", "left"})
          => /\ Cardinality({n \in 1..Len(out'[c]) :
                    out'[c][n].type = cur[c].type /\ out'[c][n].to = c}) = 1
             /\ \A m \in Others(c) : Live(m) => Cardinality(BcSent(c, m)') = 1
             /\ \A n \in 1..Len(out'[c]) :
                   out'[c][n].type = "player_update" => out'[c][n].to # c ]_vars

\* the same for the broadcasts that end without a panic
C26_ReplyAndUpdateNoPanic ==
    [][ \A c \in Conns :
          (/\ InLoop(pc[c]) /\ ~InLoop(pc'[c]) /\ pc'[c] # "panic"
           /\ bmsg[c].type = "player_update" /\ bmsg[c].action \in {"joined", "left"})
          => /\ Cardinality({n \in 1..Len(out'[c]) :
                    out'[c][n].type = cur[c].type /\ out'[c][n].to = c}) = 1
             /\ \A m \in Others(c) : Live(m) => Cardinality(BcSent(c, m)') = 1
             /\ \A n \in 1..Len(out'[c]) :
                   out'[c][n].type = "player_update" => out'[c][n].to # c ]_vars

\* C27: a well-formed chat of a member of a room changes no room, task or
\* session state, and when its broadcast is over every member of the room
\* whose connection is up, the sender included, has been delivered exactly
\* one chat envelope, with the text sent and the sender's identity (from which
\* the nickname is made).
C27_ChatToWholeRoom ==
    [][ \A c \in Conns :
          /\ (pc[c] = "read" /\ cur'[c].type = "chat") =>
                UNCHANGED << player, playerVars, roomVars >>
          /\ (cur[c].type = "chat" /\ pc'[c] # pc[c]) =>
                UNCHANGED << player, playerVars, rooms, nextInst, rid, members, tStatus >>
          /\ (InLoop(pc[c]) /\ ~InLoop(pc'[c]) /\ cur[c].type = "chat") =>
                /\ player[c] \in members[lroom[c]]
                /\ \A m \in members[lroom[c]] : Live(m) =>
                      /\ Cardinality(BcSent(c, m)') = 1
                      /\ \A n \in BcSent(c, m)' :
                            /\ out'[c][n].pid = player[c]
                            /\ out'[c][n].action = cur[c].text ]_vars

\* the same for the broadcasts that end without a panic
C27_ChatNoPanic ==
    [][ \A c \in Conns :
          /\ (pc[c] = "read" /\ cur'[c].type = "chat") =>
                UNCHANGED << player, playerVars, roomVars >>
          /\ (cur[c].type = "chat" /\ pc'[c] # pc[c]) =>
                UNCHANGED << player, playerVars, rooms, nextInst, rid, members, tStatus >>
          /\ (InLoop(pc[c]) /\ ~InLoop(pc'[c]) /\ cur[c].type = "chat" /\ pc'[c] # "panic") =>
                /\ player[c] \in members[lroom[c]]
                /\ \A m \in members[lroom[c]] : Live(m) =>
                      /\ Cardinality(BcSent(c, m)') = 1
                      /\ \A n \in BcSent(c, m)' :
                            /\ out'[c][n].pid = player[c]
                            /\ out'[c][n].action = cur[c].text ]_vars

\* the worker of c handles a complete_task
CompleteTaskOf(c) ==
    /\ cur[c].type = "player_action"
    /\ cur[c].action = "complete_task"

\* the task that the complete_task of c names is not a task of room i, or it
\* is one whose status is "available" or "failed"
AbsentOrIdle(c, i) ==
    \/ cur[c].task # "welcome_task"
    \/ tStatus[i] \in {"available", "failed"}

\* C29: a complete_task that names a task the room of the session does not
\* have, or a task that is "available" or "failed", ends at the test of the
\* task: it changes no task, room or session state, makes no issuance call and
\* writes no envelope, to the sender or to anyone.
C29_AbsentOrIdleTaskIgnored ==
    [][ \A c \in Conns, i \in Insts :
          (pc[c] = "ct_find" /\ pc'[c] # "ct_find" /\ CompleteTaskOf(c)
                /\ pRoom[player[c]] = i /\ AbsentOrIdle(c, i)) =>
                /\ pc'[c] = "done"
                /\ out'[c] = << >>
                /\ cur'[c].issue = "none"
                /\ UNCHANGED << playerVars, rooms, nextInst, rid, members, tStatus, issued >> ]_vars

\* complete_task handlers have ended with nothing issued and nothing written,
\* one for a task its room does not have and one for a task that has failed
C29_Witness ==
    \E c, d \in Conns :
        /\ pc[c] = "done" /\ CompleteTaskOf(c) /\ cur[c].task = "no_such_task"
        /\ pRoom[player[c]] # Nil /\ lroom[c] = pRoom[player[c]]
        /\ cur[c].issue = "none" /\ out[c] = << >>
        /\ pc[d] = "done" /\ CompleteTaskOf(d) /\ cur[d].task = "welcome_task"
        /\ lroom[d] # Nil /\ tStatus[lroom[d]] = "failed"
        /\ cur[d].issue = "none" /\ out[d] = << >> /\ issued[lroom[d]] = 0

\* C30: whatever the interleaving of the complete_task requests of the
\* members of a room, the task of the room is set to "completed" only from
\* "active", and at most one credential is issued for it.
C30_CompletedOnce ==
    \A i \in Insts : issued[i] <= 1

\* the credential envelopes that the worker of c has delivered
Credentials(c) == {n \in 1..Len(out[c]) : out[c][n].type = "credential"}

\* the worker of c has completed a task, the issuance has succeeded and the
\* handler is past the write of the credential envelope
Rewarded(c) ==
    /\ CompleteTaskOf(c)
    /\ cur[c].issue = "ok"
    /\ pc[c] # "ct_cred"

\* C28: when the issuance for a completed task has succeeded, the credential
\* envelope has been delivered exactly once, on the connection whose
\* complete_task completed the task and on no other connection.
C28_CredentialToCompleter ==
    \A c \in Conns : Rewarded(c) =>
        /\ Cardinality(Credentials(c)) = 1
        /\ \A n \in Credentials(c) : out[c][n].to = c

\* the workers that hold the lock the worker of c is waiting for (none when c
\* is not at a Lock() or RLock() that is taken)
Holders(c) ==
    LET of(i) == (IF wlock[i] = Nil THEN {} ELSE {wlock[i]}) \cup rlock[i]
    IN  CASE pc[c] = "join_lock"  -> of(lroom[c])
          [] pc[c] = "leave_lock" -> of(lvroom[c])
          [] pc[c] = "bc_lock"    -> IF wlock[lroom[c]] = Nil THEN {} ELSE {wlock[lroom[c]]}
          [] pc[c] = "leave_reg"  -> IF rmutex = Nil THEN {} ELSE {rmutex}
          [] OTHER                -> {}

\* every worker of S waits for a lock that other workers of S hold: none of
\* them ever takes another step
CircularWait(S) ==
    /\ S # {}
    /\ \A c \in S : Holders(c) # {} /\ Holders(c) \subseteq S \ {c}

\* C31: no interleaving of join_room, leave_room, broadcasts and disconnects
\* of different sessions brings workers into a wait for each other's locks;
\* in particular two sessions that move into each other's room both complete.
C31_NoCircularWait ==
    \A S \in SUBSET Conns : ~CircularWait(S)

\* C32: a join_room for the room the session is a member of returns: its
\* worker is never in leaveRoom at the Lock() of the mutex that joinRoom took
\* for the same room, and when joinRoom has returned the session is a member
\* of that room.
C32_RejoinReturns ==
    \A c \in Conns :
        /\ ~(pc[c] = "leave_lock" /\ cur[c].type = "join_room"
               /\ lvroom[c] = lroom[c] /\ wlock[lroom[c]] = c)
        /\ (pc[c] = "join_reply" /\ lvroom[c] = lroom[c]) => player[c] \in members[lroom[c]]

\* the session of the closing connection c is attached to another connection
\* that is open: the DID authenticated there later
Reattached(c) ==
    \E d \in Conns \ {c} :
        open[d] /\ player[d] = player[c] /\ pConn[player[c]] = d

\* C33: when the older of two connections of one DID closes, its cleanup
\* leaves the session attached to the newer connection: the connection handle
\* of the session stays the newer connection and its status stays "online".
C33_OlderCloseKeepsNewer ==
    [][ \A c \in Conns :
          (pc[c] \in {"disc", "disc_conn"} /\ pc'[c] # pc[c] /\ Reattached(c)) =>
              /\ pConn'[player[c]] = pConn[player[c]]
              /\ pStatus'[player[c]] = "online" ]_vars

\* C37: an auth that fails on a connection that has a session leaves the
\* connection with that session, so that its later envelopes are handled for
\* it and the cleanup runs for it when the connection closes; the failure
\* changes no session and no room.
C37_FailedReauthKeepsSession ==
    [][ \A c \in Conns :
          (pc[c] = "read" /\ player[c] # Nil /\ cur'[c].type = "auth_bad") =>
              /\ player'[c] = player[c]
              /\ UNCHANGED << playerVars, roomVars >> ]_vars

\* the failed auth changes no session record and no room
C37_FailedReauthChangesNoRecord ==
    [][ \A c \in Conns :
          (pc[c] = "read" /\ player[c] # Nil /\ cur'[c].type = "auth_bad") =>
              UNCHANGED << playerVars, roomVars >> ]_vars

\* C38: no sequence of inbound messages makes a task active.  In every state
\* reachable from server start through the server's handlers the task of
\* every room is "available", no complete_task gets past the test of the
\* status, no credential is issued and no task_update or credential envelope
\* is written or queued for broadcast.
C38_NoTaskEverActive ==
    /\ \A i \in Insts : tStatus[i] \in {"none", "available"} /\ issued[i] = 0
    /\ \A c \in Conns :
          /\ pc[c] \notin {"ct_set", "ct_issue", "ct_cred"}
          /\ bmsg[c].type # "task_update"
          /\ \A n \in 1..Len(out[c]) : out[c][n].type \notin {"task_update", "credential"}

\* two members of a room have had a player_action handled, one a
\* complete_task for the task of the room and one the client's accept_task:
\* the task is available and nothing was written
C38_Witness ==
    \E c, d \in Conns :
        /\ pc[c] = "done" /\ CompletingTask(c)
        /\ lroom[c] # Nil /\ lroom[c] = pRoom[player[c]]
        /\ tStatus[lroom[c]] = "available" /\ out[c] = << >>
        /\ pc[d] = "done" /\ cur[d].type = "player_action" /\ cur[d].action = "accept_task"
        /\ pRoom[player[d]] = lroom[c] /\ out[d] = << >>

\* C40: on a successful join the position of the session becomes the spawn
\* point at index n mod k (counted from 0), where k is the length of the spawn
\* list of the room's map and n the number of members of the room once the
\* joining session is in its membership; the step changes no other position.
C40_SpawnByMembershipCount ==
    [][ \A c \in Conns :
          LET p == player[c]
              n == Cardinality(members[lroom[c]])
              k == Len(SpawnPoints)
          IN  /\ (pc[c] \in {"join_spawn", "join_spawn_y"} /\ pc'[c] # pc[c]) =>
                    /\ p \in members[lroom[c]]
                    /\ members' = members
                    /\ \A q \in AllDIDs \ {p} : pPos'[q] = pPos[q]
              /\ (pc[c] = "join_spawn_y" /\ pc'[c] # pc[c]) =>
                    /\ pc'[c] = "join_reply"
                    /\ pPos'[p] = SpawnPoints[(n % k) + 1] ]_vars

\* a room has three members, joined in turn: the third is at the first spawn
\* point (3 mod 3), the others at the second and at the third
C40_Witness ==
    \E i \in Insts :
        /\ members[i] = DIDs
        /\ \E p \in DIDs : pPos[p] = SpawnPoints[1]
        /\ \E p \in DIDs : pPos[p] = SpawnPoints[2]
        /\ \E p \in DIDs : pPos[p] = SpawnPoints[3]
        /\ \A c \in Conns : pc[c] = "read"

\* the worker of c holds the mutex of room i, in read or in write form
HoldsLock(c, i) == wlock[i] = c \/ c \in rlock[i]

\* C34: every read and every write of the Game State of a room is made by a
\* worker that holds the mutex of that room: the search of the task and the
\* test of its status in complete_task, the assignment of the status (in
\* write form), and the serialization of the room with its Game State into
\* the join_room reply.
C34_GameStateUnderLock ==
    [][ \A c \in Conns :
          /\ (pc[c] = "ct_find" /\ pc'[c] \in {"done", "ct_set"}) => HoldsLock(c, lroom'[c])
          /\ (pc[c] = "ct_set" /\ pc'[c] = "ct_issue") => wlock[lroom[c]] = c
          /\ (pc[c] = "join_reply" /\ pc'[c] = "bc_lock") => HoldsLock(c, lroom[c]) ]_vars

\* the connection on which the worker of c is at a call of WriteJSON (Nil when
\* it is at none): the delivery inside the loop of broadcastToRoom, the
\* direct reply of join_room, leave_room or complete_task, the error of
\* sendErrorToPlayer, or the reply of handleAuth on the worker's connection
Writing(c) ==
    CASE pc[c] = "bc_write" -> pConn[bmem[c]]
      [] pc[c] \in {"join_reply", "leave_reply", "ct_cred", "err_write"} -> pConn[player[c]]
      [] pc[c] = "auth_reply" -> c
      [] OTHER -> Nil

\* C36: at most one worker writes on a connection at any instant: no two
\* workers are at a call of WriteJSON on the same connection with nothing to
\* order the two calls.
C36_OneWriterPerConnection ==
    \A c, d \in Conns :
        (c # d /\ Writing(c) # Nil) => Writing(c) # Writing(d)

\* the worker of c is in a delivery that never completes
SlowWrite(c) == pc[c] = "bc_write" /\ pConn[bmem[c]] \in SlowPeers

\* C35: a send that never completes blocks nothing else.  While a worker is
\* in a delivery to a peer that has stopped reading, no other member of its
\* broadcast is left without its delivery, and no other worker waits for a
\* lock that the worker holds (a join_room or leave_room on the same room, or
\* another broadcast).
C35_SlowPeerBlocksNothing ==
    \A c \in Conns : SlowWrite(c) =>
        /\ \A m \in todo[c] : ~(BcTarget(m, bmsg[c].excl) /\ Live(m) /\ pConn[m] \notin SlowPeers)
        /\ \A d \in Conns \ {c} : c \notin Holders(d)

\* the envelope types that a member's worker broadcasts on the member's behalf
Relayed == {"player_move", "chat"}

\* C39: the envelopes of a connection are handled one at a time, in the order
\* of their arrival.  A worker takes a player_move or a chat only from
\* conn.ReadJSON, with the handler of the envelope before it returned and
\* none of its deliveries left; and each delivery it makes while it handles
\* one carries that envelope's content and the sender's session.  So a
\* member gets the broadcasts of another member's envelopes in the order in
\* which they were sent.
C39_OneAtATimeInOrder ==
    [][ \A c \in Conns :
          /\ (cur'[c] # cur[c] /\ cur'[c].type \in Relayed) =>
                /\ pc[c] = "read"
                /\ todo[c] = {} /\ bmem[c] = Nil /\ out[c] = << >>
                /\ \A i \in Insts : ~HoldsLock(c, i)
          /\ (cur[c].type \in Relayed /\ out'[c] # out[c] /\ out'[c] # << >>) =>
                /\ cur'[c] = cur[c]
                /\ Len(out'[c]) = Len(out[c]) + 1
                /\ SubSeq(out'[c], 1, Len(out[c])) = out[c]
                /\ LET e == out'[c][Len(out'[c])]
                   IN  /\ e.type = cur[c].type /\ e.pid = player[c]
                       /\ cur[c].type = "chat" => e.action = cur[c].text
                       /\ cur[c].type = "player_move" => e.pos = cur[c].pos ]_vars

\* member 2 was the first in the room; member 1 joined, sent a player_move,
\* which has been handled, and then a chat, which has been delivered on the
\* connection of member 2
C39_Witness ==
    /\ pPos[2] = SpawnPoints[2]
    /\ pPos[1] \in MovePoints
    /\ pc[1] = "done" /\ cur[1].type = "chat"
    /\ \E n \in 1..Len(out[1]) : out[1][n].type = "chat" /\ out[1][n].to = 2
====
